---- MODULE Spec2Model ----
(***************************************************************************)
(* A model of the kodomo streaming pipeline:                               *)
(*   - the wire packet codec (kd-network/src/packet.rs),                   *)
(*   - the NAL-aware chunker, the UDP send path and the fragment           *)
(*     reassembly buffer (kd-network/src/udp_transport.rs),                *)
(*   - the lifecycle and the workers of StreamingEngine                    *)
(*     (kd-core/src/engine.rs),                                            *)
(*   - the capture, encoder and network workers of StreamingServer         *)
(*     (kd-server/src/server.rs),                                          *)
(*   - the validation of the server configuration                          *)
(*     (kd-server/src/config.rs).                                          *)
(*                                                                         *)
(* Fixed-width integers are held as big-endian sequences of 16-bit limbs   *)
(* (u32: 2 limbs, u64 and usize: 4 limbs), so that wrap-around and         *)
(* truncating casts behave as in the Rust code.                            *)
(*                                                                         *)
(* A Bytes value is a record [head, fill, run]: the bytes of head followed *)
(* by run copies of the byte fill.  Ordinary buffers have run = 0; the run *)
(* makes buffers of 2^32 bytes and more representable.                     *)
(***************************************************************************)
EXTENDS Integers, Sequences, FiniteSets, TLC

VARIABLES
    \* the validation of a server configuration
    cfg_pc,              \* "idle" | "loaded" | "validated"
    cfg,                 \* the Config under validation
    cfg_res,             \* what Config::validate returned
    \* ---- packet codec (SpecCodec) ----
    c_pc,        \* "new" | "serialized" | "parsed"
    c_pkt,       \* the Packet handed to to_bytes
    c_wire,      \* the Bytes handed to from_bytes
    c_tampered,  \* whether c_wire is still exactly to_bytes(c_pkt)
    c_res,       \* the Result of from_bytes
    \* ---- chunker (SpecChunk) ----
    k_pc,        \* "new" | "chunked"
    k_data,      \* the coded payload
    k_max,       \* max_chunk_size
    k_chunks,    \* the chunks returned
    \* ---- sending UdpTransport (Spec, SpecFrame, SpecReceive) ----
    t_state,     \* "ready" | "panicked" | "hung": the task calling send
    socket,      \* whether self.socket is Some
    peer_addr,   \* whether self.peer_addr is Some
    config,      \* None, or Some(max_packet_size)
    sequence,    \* self.sequence, a u32
    stats,       \* packets_sent and bytes_sent of self.stats
    socket_log,  \* every datagram handed to socket.send, and whether it was sent
    calls,       \* one record per call of send
    budget,      \* the number of send calls a run of the model makes
    source,      \* the coded payloads the caller may hand to send
    seq0,        \* the value of self.sequence when the session began
    \* ---- receiving FragmentBuffer (SpecFrame, SpecReceive) ----
    rx_buf,      \* fragments and expected_sequence
    rx_start,    \* the buffer before the first datagram arrived
    rx_pos,      \* how many sent datagrams have arrived or been lost
    rx_log,      \* for each of them: lost or not, the value add_fragment returned,
                 \* the buffer before and after, the sequence numbers in the chain
    rx_stats,    \* packets_received and bytes_received of self.stats
    \* ---- StreamingEngine (SpecEngine) ----
    e_running,     \* *self.running
    e_frame_rx,    \* whether self.frame_rx is Some
    e_encoded_rx,  \* whether self.encoded_rx is Some
    e_pc,          \* per worker task: "none" | "loop" | "counting" | "exited"
    e_shutdown_rx, \* per worker task: a shutdown message waits in its receiver
    e_frames,      \* the frame channel (frame_tx -> frame_rx)
    e_encoded,     \* the encoded channel (encoded_tx -> encoded_rx)
    e_stats,       \* frames_encoded, frames_sent, bytes_sent of self.stats
    e_pushed,      \* how many frames the capture side has pushed
    e_log,         \* one record per call of start or stop
    e_config,      \* the StreamConfig behind the config lock
    e_update,      \* the last call of update_config, if any
    \* ---- StreamingServer (SpecServer, SpecNet) ----
    cap_pc,        \* capture task: "idle" | "loop" | "sending" | "exited"
    enc_pc,        \* encoder task: "idle" | "loop" | "encoding" | "sending" | "exited"
    net_pc,        \* network task: "idle" | "loop" | "exited"
    aux_pc,        \* input and metrics tasks: "idle" | "loop" | "exited"
    shutdown_rx,   \* per task: a shutdown message waits in its receiver
    srv_state,     \* "idle" | "new" | "running" | "failed" | "stopping" | "stopped"
    q1,            \* the frame channel (capture -> encoder)
    q2,            \* the packet channel (encoder -> network)
    metrics,       \* the counters of MetricsCollector
    cap_frame,     \* the frame the capture task is sending
    enc_item,      \* the frame or coded packet the encoder task holds
    cap_frame_number,    \* frame_number of the capture task
    cap_budget,          \* what the capture device yields in a run: the number of
                         \* frames, and of errors in a row
    flushed,             \* what encoder.flush() returned to the encoder task
    inbox,               \* datagrams of a remote client waiting at the bound port
    enc_frame_number,    \* frame_number of the encoder task
    consecutive_errors,  \* consecutive_errors of the capture task
    enc_log,       \* one record per frame the encoder task took from q1
    net_sequence,  \* sequence of the network task, a u32
    net_log        \* one record per coded packet the network task took from q2

codec_vars == <<c_pc, c_pkt, c_wire, c_tampered, c_res>>
chunk_vars == <<k_pc, k_data, k_max, k_chunks>>
send_vars == <<t_state, socket, peer_addr, config, sequence, stats, socket_log,
               calls, budget, source, seq0>>
recv_vars == <<rx_buf, rx_start, rx_pos, rx_log, rx_stats>>
engine_vars == <<e_running, e_frame_rx, e_encoded_rx, e_pc, e_shutdown_rx, e_frames,
                 e_encoded, e_stats, e_pushed, e_log, e_config, e_update>>
pipe_vars == <<cap_pc, enc_pc, net_pc, shutdown_rx, srv_state, q1, q2, metrics,
               cap_frame, enc_item, cap_frame_number, cap_budget, aux_pc, flushed, inbox,
               enc_frame_number, consecutive_errors, enc_log, net_sequence,
               net_log>>
config_vars == <<cfg_pc, cfg, cfg_res>>
vars == <<config_vars, codec_vars, chunk_vars, send_vars, recv_vars, engine_vars,
          pipe_vars>>

(***************************************************************************)
(* Fixed-width integers                                                    *)
(***************************************************************************)
Base == 256 * 256

Limb == 0 .. (Base - 1)

RECURSIVE LAdd(_, _, _)
\* a + b + carry, wrapping at the width of a (the final carry is dropped)
LAdd(a, b, carry) ==
    IF a = <<>> THEN <<>>
    ELSE LET n == Len(a)
             s == a[n] + b[n] + carry
         IN  Append(LAdd(SubSeq(a, 1, n - 1), SubSeq(b, 1, n - 1), s \div Base),
                    s % Base)

RECURSIVE LSub(_, _, _)
\* a - b - borrow, wrapping at the width of a
LSub(a, b, borrow) ==
    IF a = <<>> THEN <<>>
    ELSE LET n == Len(a)
             d == a[n] - b[n] - borrow
         IN  Append(LSub(SubSeq(a, 1, n - 1), SubSeq(b, 1, n - 1),
                         IF d < 0 THEN 1 ELSE 0),
                    IF d < 0 THEN d + Base ELSE d)

RECURSIVE LLt(_, _)
\* a < b for two integers of the same width
LLt(a, b) ==
    IF a = <<>> THEN FALSE
    ELSE a[1] < b[1] \/ (a[1] = b[1] /\ LLt(Tail(a), Tail(b)))

\* a small natural number as a u32 / u64 / usize
U32(n) == <<n \div Base, n % Base>>
U64(n) == <<0, 0, n \div Base, n % Base>>
USize(n) == <<0, 0, n \div Base, n % Base>>

\* an increment that stays at u32::MAX instead of wrapping
saturating_add1(v) == IF v = <<Base - 1, Base - 1>> THEN v ELSE LAdd(v, <<0, 1>>, 0)

\* u32::wrapping_add(1)
wrapping_add1(v) == LAdd(v, U32(1), 0)

\* `x as u32` for a usize x: the low 32 bits
usize_as_u32(x) == SubSeq(x, 3, 4)

\* `x as usize` for a u32 x
u32_as_usize(x) == <<0, 0>> \o x

U32_MAX == <<Base - 1, Base - 1>>

\* 2^32 as a usize
TwoTo32 == <<0, 1, 0, 0>>

(***************************************************************************)
(* Bytes                                                                   *)
(***************************************************************************)
\* an ordinary buffer holding the byte sequence s
BytesOf(s) == [head |-> s, fill |-> 0, run |-> USize(0)]

\* n copies of byte b, n a usize
BytesRun(b, n) == [head |-> <<>>, fill |-> b, run |-> n]

Normal(b) == IF b.run = USize(0) THEN [b EXCEPT !.fill = 0] ELSE b

\* Bytes::len()
BLen(b) == LAdd(USize(Len(b.head)), b.run, 0)

\* the i-th byte (1-based) of a buffer that has at least i bytes
At(b, i) == IF i <= Len(b.head) THEN b.head[i] ELSE b.fill

\* the buffer without its first k bytes (k a small number, k <= len)
Advance(b, k) ==
    IF k <= Len(b.head)
    THEN [b EXCEPT !.head = SubSeq(b.head, k + 1, Len(b.head))]
    ELSE Normal([b EXCEPT !.head = <<>>,
                          !.run = LSub(b.run, USize(k - Len(b.head)), 0)])

\* Bytes::split_to(n): the first n bytes (n a usize, n <= len)
split_to(b, n) ==
    IF ~LLt(USize(Len(b.head)), n)
    THEN BytesOf(SubSeq(b.head, 1, n[3] * Base + n[4]))
    ELSE Normal([b EXCEPT !.run = LSub(n, USize(Len(b.head)), 0)])

\* the buffer b followed by c, for an ordinary b
BCat(b, c) == [c EXCEPT !.head = b \o c.head]

\* the first k bytes of a buffer (k a small number), as a buffer
BTake(b, k) ==
    IF k <= Len(b.head) THEN BytesOf(SubSeq(b.head, 1, k))
    ELSE Normal([b EXCEPT !.run = USize(k - Len(b.head))])

(***************************************************************************)
(* Packet (packet.rs)                                                      *)
(***************************************************************************)
PacketTypes == {"Video", "Audio", "Input", "Control"}

\* `packet_type as u8`: the #[repr(u8)] discriminants
TypeByte(t) ==
    CASE t = "Video" -> 1
      [] t = "Audio" -> 2
      [] t = "Input" -> 3
      [] t = "Control" -> 4

FLAG_KEYFRAME == 1
FLAG_FRAGMENT == 2
FLAG_LAST_FRAGMENT == 4

HEADER_SIZE == 18

\* flags & mask != 0, for a one-bit mask
HasFlag(flags, mask) == (flags \div mask) % 2 = 1

\* flags | mask, for a one-bit mask
SetFlag(flags, mask) == IF HasFlag(flags, mask) THEN flags ELSE flags + mask

\* a put_u32 / put_u64 that writes each limb low byte first
RECURSIVE put_limbs_swapped(_)
put_limbs_swapped(v) ==
    IF v = <<>> THEN <<>>
    ELSE <<v[1] % 256, v[1] \div 256>> \o put_limbs_swapped(Tail(v))

\* BufMut::put_u32 / put_u64: big-endian bytes of the limbs
RECURSIVE put_limbs(_)
put_limbs(v) ==
    IF v = <<>> THEN <<>>
    ELSE <<v[1] \div 256, v[1] % 256>> \o put_limbs(Tail(v))

\* Buf::get_u32 / get_u64: the limbs of big-endian bytes
RECURSIVE get_limbs(_)
get_limbs(s) ==
    IF s = <<>> THEN <<>>
    ELSE <<s[1] * 256 + s[2]>> \o get_limbs(SubSeq(s, 3, Len(s)))

\* Packet::new with the clock reading ts; with_flags is [p EXCEPT !.flags]
NewPacket(t, seq, ts, payload) ==
    [packet_type |-> t, sequence |-> seq, timestamp |-> ts,
     flags |-> 0, payload |-> payload]

with_flags(p, flags) == [p EXCEPT !.flags = flags]

\* the payload-length field written by to_bytes: payload.len() as u32
LenField(p) == usize_as_u32(BLen(p.payload))

\* Packet::to_bytes
to_bytes(p) ==
    BCat(<<TypeByte(p.packet_type)>>
            \o put_limbs(p.sequence)
            \o put_limbs(p.timestamp)
            \o <<p.flags>>
            \o put_limbs(LenField(p)),
         p.payload)

Ok(p) == [ok |-> TRUE, err |-> "", packet |-> p]
Err(e) == [ok |-> FALSE, err |-> e, packet |-> <<>>]

\* a match on the type byte that has no arm for Control
TypeOfByte_NoControl(b) ==
    CASE b = 1 -> "Video"
      [] b = 2 -> "Audio"
      [] b = 3 -> "Input"
      [] OTHER -> "invalid"

\* the match on the type byte in from_bytes
TypeOfByte(b) ==
    CASE b = 1 -> "Video"
      [] b = 2 -> "Audio"
      [] b = 3 -> "Input"
      [] b = 4 -> "Control"
      [] OTHER -> "invalid"

\* the first length check of from_bytes
TooShort(data) == LLt(BLen(data), USize(HEADER_SIZE))

\* a second length check that also rejects a payload that exactly fits
Incomplete_OffByOne(rest, payload_len) == ~LLt(payload_len, BLen(rest))

\* the second length check of from_bytes: rest is what follows the header
Incomplete(rest, payload_len) == LLt(BLen(rest), payload_len)

\* Packet::from_bytes
from_bytes(data) ==
    IF TooShort(data) THEN Err("Packet too short")
    ELSE LET hdr == [i \in 1 .. HEADER_SIZE |-> At(data, i)]
             t == TypeOfByte(hdr[1])
             payload_len == u32_as_usize(get_limbs(SubSeq(hdr, 15, 18)))
             rest == Advance(data, HEADER_SIZE)
         IN  IF t = "invalid" THEN Err("Invalid packet type")
             ELSE IF Incomplete(rest, payload_len) THEN Err("Incomplete payload")
             ELSE Ok([packet_type |-> t,
                      sequence |-> get_limbs(SubSeq(hdr, 2, 5)),
                      timestamp |-> get_limbs(SubSeq(hdr, 6, 13)),
                      flags |-> hdr[14],
                      payload |-> split_to(rest, payload_len)])

(***************************************************************************)
(* NAL-aware chunking (udp_transport.rs).  The coded payloads handed to    *)
(* the chunker are ordinary byte sequences; offsets are 0-based as in the  *)
(* code.                                                                   *)
(***************************************************************************)
\* data[i]
Byte(data, i) == data[i + 1]

\* data.slice(a..b)
Slice(data, a, b) == SubSeq(data, a + 1, b)

Min(a, b) == IF a < b THEN a ELSE b

RECURSIVE Concat(_)
\* the concatenation of a sequence of byte sequences
Concat(ss) == IF ss = <<>> THEN <<>> ELSE Head(ss) \o Concat(Tail(ss))

RECURSIVE ScanBoundaries(_, _, _)
\* the while loop of find_nal_boundaries, from offset i with the
\* boundaries found so far
ScanBoundaries(data, i, boundaries) ==
    IF ~(i + 3 < Len(data)) THEN boundaries
    ELSE IF Byte(data, i) = 0 /\ Byte(data, i + 1) = 0
         THEN IF Byte(data, i + 2) = 0 /\ i + 3 < Len(data) /\ Byte(data, i + 3) = 1
              THEN ScanBoundaries(data, i + 4, Append(boundaries, i))
              ELSE IF Byte(data, i + 2) = 1
                   THEN ScanBoundaries(data, i + 3, Append(boundaries, i))
                   ELSE ScanBoundaries(data, i + 1, boundaries)
         ELSE ScanBoundaries(data, i + 1, boundaries)

\* UdpTransport::find_nal_boundaries
find_nal_boundaries(data) == ScanBoundaries(data, 0, <<>>)

RECURSIVE SimpleChunks(_, _)
\* data.chunks(max_chunk_size), for max_chunk_size >= 1
SimpleChunks(data, max_chunk_size) ==
    IF data = <<>> THEN <<>>
    ELSE LET n == Min(max_chunk_size, Len(data))
         IN  <<SubSeq(data, 1, n)>>
                \o SimpleChunks(SubSeq(data, n + 1, Len(data)), max_chunk_size)

RECURSIVE SplitNal(_, _, _, _, _)
\* the inner while loop that cuts one large NAL unit, for max_chunk_size >= 1
SplitNal(data, max_chunk_size, nal_offset, nal_end, chunks) ==
    IF ~(nal_offset < nal_end) THEN chunks
    ELSE LET chunk_end == Min(nal_offset + max_chunk_size, nal_end)
         IN  SplitNal(data, max_chunk_size, chunk_end, nal_end,
                      Append(chunks, Slice(data, nal_offset, chunk_end)))

\* a nal_end that never looks at the next boundary
NalEnd_ToEnd(data, boundaries, i) == Len(data)

\* nal_end of the i-th boundary (i is 0-based)
NalEnd(data, boundaries, i) ==
    IF i + 1 < Len(boundaries) THEN boundaries[i + 2] ELSE Len(data)

\* the test of the `else if` branch: adding this NAL would exceed the chunk
ExceedsChunk(current_chunk_start, nal_end, max_chunk_size) ==
    current_chunk_start + (nal_end - current_chunk_start) > max_chunk_size

\* a large-NAL branch that forgets the chunk in progress
FlushBeforeLarge_Forgotten(data, chunks, current_chunk_start, nal_start) == chunks

\* "Flush current chunk if it has data", before a large NAL unit
FlushBeforeLarge(data, chunks, current_chunk_start, nal_start) ==
    IF current_chunk_start < nal_start
    THEN Append(chunks, Slice(data, current_chunk_start, nal_start))
    ELSE chunks

\* "Flush remaining data", after the loop
FlushRemaining(data, chunks, current_chunk_start) ==
    IF current_chunk_start < Len(data)
    THEN Append(chunks, Slice(data, current_chunk_start, Len(data)))
    ELSE chunks

RECURSIVE ChunkLoop(_, _, _, _, _, _)
\* the for loop over the boundaries of create_nal_aware_chunks, from index i
\* (0-based) with the chunks pushed so far and current_chunk_start
ChunkLoop(data, max_chunk_size, boundaries, i, chunks, current_chunk_start) ==
    IF ~(i < Len(boundaries))
    THEN FlushRemaining(data, chunks, current_chunk_start)
    ELSE LET nal_start == boundaries[i + 1]
             nal_end == NalEnd(data, boundaries, i)
             nal_size == nal_end - nal_start
         IN  IF nal_size > max_chunk_size
             THEN ChunkLoop(data, max_chunk_size, boundaries, i + 1,
                            SplitNal(data, max_chunk_size, nal_start, nal_end,
                                     FlushBeforeLarge(data, chunks,
                                                      current_chunk_start, nal_start)),
                            nal_end)
             ELSE IF ExceedsChunk(current_chunk_start, nal_end, max_chunk_size)
                  THEN ChunkLoop(data, max_chunk_size, boundaries, i + 1,
                                 Append(chunks,
                                        Slice(data, current_chunk_start, nal_start)),
                                 nal_start)
                  ELSE ChunkLoop(data, max_chunk_size, boundaries, i + 1,
                                 chunks, current_chunk_start)

\* UdpTransport::create_nal_aware_chunks, for max_chunk_size >= 1
create_nal_aware_chunks(data, max_chunk_size) ==
    LET boundaries == find_nal_boundaries(data)
    IN  IF boundaries = <<>>
        THEN SimpleChunks(data, max_chunk_size)
        ELSE ChunkLoop(data, max_chunk_size, boundaries, 0, <<>>, 0)

\* With max_chunk_size = 0 the call does not return: slice::chunks(0) panics
\* when no boundary is found, and otherwise the inner while loop never
\* advances nal_offset.
ChunkerOutcome(data, max_chunk_size) ==
    IF max_chunk_size >= 1 THEN "ok"
    ELSE IF find_nal_boundaries(data) = <<>> THEN "panic"
    ELSE "hang"

(***************************************************************************)
(* Fragment reassembly (udp_transport.rs, FragmentBuffer)                  *)
(***************************************************************************)
None == [some |-> FALSE]
Some(v) == [some |-> TRUE, val |-> v]

\* FragmentBuffer::new
NewFragmentBuffer == [fragments |-> <<>>, expected_sequence |-> None]

\* a reassembly that returns the last fragment alone
Reassemble_LastOnly(fragments) == BytesOf(fragments[Len(fragments)])

\* "Reassemble all fragments": the payloads of the chain, in order
Reassemble(fragments) == BytesOf(Concat(fragments))

\* the "First fragment" step: with no expected sequence, expect this packet
AcceptFirst(buf, packet) ==
    IF ~buf.expected_sequence.some
    THEN [fragments |-> <<>>, expected_sequence |-> Some(packet.sequence)]
    ELSE buf

\* a mismatch branch that clears the fragments and forgets to clear
\* expected_sequence
Mismatch_KeepExpected(buf) ==
    [fragments |-> <<>>, expected_sequence |-> buf.expected_sequence]

\* the "Sequence mismatch, reset" branch
Mismatch(buf) == NewFragmentBuffer

\* FragmentBuffer::add_fragment: the buffer afterwards and the value returned.
\* Fragment payloads arrive in datagrams, so they are ordinary buffers.
add_fragment(buf, packet) ==
    IF HasFlag(packet.flags, FLAG_FRAGMENT)
    THEN LET b1 == AcceptFirst(buf, packet)
         IN  IF Some(packet.sequence) = b1.expected_sequence
             THEN LET b2 == [fragments |-> Append(b1.fragments, packet.payload.head),
                             expected_sequence |->
                                 Some(wrapping_add1(packet.sequence))]
                  IN  IF HasFlag(packet.flags, FLAG_LAST_FRAGMENT)
                      THEN [buf |-> NewFragmentBuffer,
                            out |-> Some(Reassemble(b2.fragments))]
                      ELSE [buf |-> b2, out |-> None]
             ELSE [buf |-> Mismatch(b1), out |-> None]
    ELSE [buf |-> buf, out |-> Some(packet.payload)]

(***************************************************************************)
(* UDP send path (udp_transport.rs)                                        *)
(***************************************************************************)
HEADER_RESERVE == 50

\* usize::saturating_sub
saturating_sub(a, b) == IF a >= b THEN a - b ELSE 0

\* a max_payload_size that reserves the 18 bytes of the header only
max_payload_size_Header(max_packet_size) ==
    saturating_sub(max_packet_size, HEADER_SIZE)

\* max_payload_size in send
max_payload_size(max_packet_size) == saturating_sub(max_packet_size, HEADER_RESERVE)

\* the fragmentation test of send
NeedsFragmentation(data, max_packet_size) ==
    ~(Len(data) <= max_payload_size(max_packet_size))

\* fragment flags that mark every fragment as the last
FragmentFlags_AllLast(idx, total_chunks) ==
    SetFlag(FLAG_FRAGMENT, FLAG_LAST_FRAGMENT)

\* the flags of the idx-th (0-based) of total_chunks fragments
FragmentFlags(idx, total_chunks) ==
    IF idx = total_chunks - 1
    THEN SetFlag(FLAG_FRAGMENT, FLAG_LAST_FRAGMENT)
    ELSE FLAG_FRAGMENT

RECURSIVE SeqPlus(_, _)
\* the sequence counter after k wrapping increments
SeqPlus(seq, k) == IF k = 0 THEN seq ELSE SeqPlus(wrapping_add1(seq), k - 1)

\* The datagrams one call of send builds, in order, when every socket send
\* succeeds: one unfragmented packet, or one packet per chunk.
SendDatagrams(data, max_packet_size, seq, ts) ==
    IF ~NeedsFragmentation(data, max_packet_size)
    THEN <<to_bytes(NewPacket("Video", seq, ts, BytesOf(data)))>>
    ELSE LET chunks == create_nal_aware_chunks(data, max_payload_size(max_packet_size))
             total_chunks == Len(chunks)
         IN  [idx0 \in 1 .. total_chunks |->
                 to_bytes(with_flags(
                     NewPacket("Video", SeqPlus(seq, idx0 - 1), ts,
                               BytesOf(chunks[idx0])),
                     FragmentFlags(idx0 - 1, total_chunks)))]

(***************************************************************************)
(* SpecCodec: to_bytes and from_bytes applied to bounded inputs            *)
(***************************************************************************)
MaxCodecLen == 4

CodecPattern == <<222, 173, 190, 239, 1, 0, 0, 2>>

\* the payloads: short ordinary buffers, and buffers around 2^16 and 2^32 bytes
CodecPayloads ==
    {BytesOf(SubSeq(CodecPattern, 1, n)) : n \in 0 .. MaxCodecLen}
        \cup {BytesRun(171, USize(Base)),
              BytesRun(171, u32_as_usize(U32_MAX)),
              BytesRun(171, TwoTo32),
              BytesRun(171, LAdd(TwoTo32, USize(2), 0))}

CodecSequences == {U32(0), <<258, 772>>, U32_MAX}

CodecTimestamps == {<<258, 772, 1286, 1800>>, <<Base - 1, Base - 1, Base - 1, Base - 1>>}

CodecFlags == {0, FLAG_KEYFRAME, FLAG_FRAGMENT + FLAG_LAST_FRAGMENT, 255}

ConfigIdle == cfg_pc = "idle" /\ cfg = <<>> /\ cfg_res = <<>>

CodecIdle ==
    /\ c_pc = "idle" /\ c_pkt = <<>> /\ c_wire = <<>>
    /\ c_tampered = FALSE /\ c_res = <<>>

ChunkIdle ==
    /\ k_pc = "idle" /\ k_data = <<>> /\ k_max = 0 /\ k_chunks = <<>>

SendIdle ==
    /\ t_state = "idle" /\ socket = FALSE /\ peer_addr = FALSE
    /\ config = None /\ sequence = U32(0) /\ seq0 = U32(0)
    /\ stats = [packets_sent |-> 0, bytes_sent |-> 0]
    /\ socket_log = <<>> /\ calls = <<>> /\ budget = 0 /\ source = {}

NoRxStats == [packets_received |-> 0, bytes_received |-> 0]

RecvIdle ==
    /\ rx_buf = NewFragmentBuffer /\ rx_start = NewFragmentBuffer
    /\ rx_pos = 0 /\ rx_log = <<>>
    /\ rx_stats = NoRxStats

EngineWorkers == {"encoding", "network"}

EngineIdle ==
    /\ e_running = FALSE /\ e_frame_rx = FALSE /\ e_encoded_rx = FALSE
    /\ e_pc = [w \in EngineWorkers |-> "none"]
    /\ e_shutdown_rx = [w \in EngineWorkers |-> FALSE]
    /\ e_frames = <<>> /\ e_encoded = <<>>
    /\ e_stats = [frames_encoded |-> 0, frames_sent |-> 0, bytes_sent |-> 0]
    /\ e_pushed = 0 /\ e_log = <<>>
    /\ e_config = <<>> /\ e_update = None

ServerWorkers == {"capture", "encoder", "network"}

\* the tasks of start_input_loop and start_metrics_loop
AuxWorkers == {"input", "metrics"}

NoMetrics ==
    [frames_captured |-> 0, frames_encoded |-> 0, packets_sent |-> 0,
     frames_dropped |-> 0, bytes_sent |-> 0, bytes_encoded |-> 0]

PipeIdle ==
    /\ cap_pc = "idle" /\ enc_pc = "idle" /\ net_pc = "idle"
    /\ shutdown_rx = [w \in ServerWorkers \cup AuxWorkers |-> FALSE]
    /\ aux_pc = [w \in AuxWorkers |-> "idle"]
    /\ srv_state = "idle"
    /\ q1 = <<>> /\ q2 = <<>>
    /\ metrics = NoMetrics
    /\ cap_frame = None /\ enc_item = None
    /\ cap_frame_number = 0 /\ enc_frame_number = 0
    /\ cap_budget = [frames |-> 0, errors |-> 0] /\ flushed = None
    /\ inbox = 0
    /\ consecutive_errors = 0
    /\ enc_log = <<>>
    /\ net_sequence = U32(0) /\ net_log = <<>>

InitCodec ==
    /\ c_pc = "new"
    /\ c_pkt \in {with_flags(NewPacket(t, seq, ts, payload), flags) :
                     t \in PacketTypes, seq \in CodecSequences,
                     ts \in CodecTimestamps, flags \in CodecFlags,
                     payload \in CodecPayloads}
    /\ c_wire = <<>>
    /\ c_tampered = FALSE
    /\ c_res = <<>>
    /\ ConfigIdle /\ ChunkIdle /\ SendIdle /\ RecvIdle /\ EngineIdle /\ PipeIdle

\* wire_data = packet.to_bytes()
Serialize ==
    /\ c_pc = "new"
    /\ c_wire' = to_bytes(c_pkt)
    /\ c_pc' = "serialized"
    /\ UNCHANGED <<c_pkt, c_tampered, c_res>>
    /\ UNCHANGED <<config_vars, chunk_vars, send_vars, recv_vars, engine_vars, pipe_vars>>

\* The bytes handed to from_bytes need not be a serialized packet: the type
\* byte may be anything, bytes may follow the payload, and the buffer may end
\* anywhere.
Tamper ==
    /\ c_pc = "serialized"
    /\ ~c_tampered
    /\ c_wire.run = USize(0)
    /\ \E kind \in {1, 0, 5, 255}, trailing \in {<<>>, <<238, 238>>},
          cut \in {0, HEADER_SIZE - 1, HEADER_SIZE, HEADER_SIZE + 1,
                   HEADER_SIZE + MaxCodecLen + 2} :
            LET w1 == [c_wire.head EXCEPT ![1] = kind] \o trailing
            IN  c_wire' = BytesOf(SubSeq(w1, 1, Min(cut, Len(w1))))
    /\ c_tampered' = TRUE
    /\ UNCHANGED <<c_pc, c_pkt, c_res>>
    /\ UNCHANGED <<config_vars, chunk_vars, send_vars, recv_vars, engine_vars, pipe_vars>>

\* Packet::from_bytes(wire_data)
Parse ==
    /\ c_pc = "serialized"
    /\ c_res' = from_bytes(c_wire)
    /\ c_pc' = "parsed"
    /\ UNCHANGED <<c_pkt, c_wire, c_tampered>>
    /\ UNCHANGED <<config_vars, chunk_vars, send_vars, recv_vars, engine_vars, pipe_vars>>

NextCodec == Serialize \/ Tamper \/ Parse

SpecCodec == InitCodec /\ [][NextCodec]_vars

(***************************************************************************)
(* Claims about the packet codec (checked under SpecCodec)                 *)
(***************************************************************************)
\* the payload is shorter than 2^32 bytes, so its length fits the u32 field
FitsLenField(p) == LLt(BLen(p.payload), TwoTo32)

RoundTripOk == c_res.ok /\ c_res.packet = c_pkt

\* C7 (as amended): for every packet whose payload is at most 2^32 - 1 bytes
\* long, from_bytes(to_bytes(P)) succeeds and returns a packet whose kind,
\* sequence, timestamp, flags and payload equal those of P.
C7_RoundTrip ==
    (c_pc = "parsed" /\ ~c_tampered /\ FitsLenField(c_pkt)) => RoundTripOk

\* C7 as stated: the round trip holds for every packet, whatever its payload.
C7_Original ==
    (c_pc = "parsed" /\ ~c_tampered) => RoundTripOk

C7_Witness ==
    /\ c_pc = "parsed" /\ ~c_tampered
    /\ c_pkt.packet_type = "Control"
    /\ c_pkt.flags = 255
    /\ c_pkt.sequence = U32_MAX
    /\ c_pkt.payload = BytesOf(<<222, 173, 190, 239>>)
    /\ c_res.ok

\* the number held in two consecutive bytes of c_wire, high byte first
WireWord(i) == At(c_wire, i) * 256 + At(c_wire, i + 1)

\* the layout of c_wire for the packet c_pkt
WireLayout ==
    /\ BLen(c_wire) = LAdd(USize(18), BLen(c_pkt.payload), 0)
    /\ \/ c_pkt.packet_type = "Video" /\ At(c_wire, 1) = 1
       \/ c_pkt.packet_type = "Audio" /\ At(c_wire, 1) = 2
       \/ c_pkt.packet_type = "Input" /\ At(c_wire, 1) = 3
       \/ c_pkt.packet_type = "Control" /\ At(c_wire, 1) = 4
    /\ <<WireWord(2), WireWord(4)>> = c_pkt.sequence
    /\ <<WireWord(6), WireWord(8), WireWord(10), WireWord(12)>> = c_pkt.timestamp
    /\ At(c_wire, 14) = c_pkt.flags
    /\ <<0, 0, WireWord(15), WireWord(17)>> = BLen(c_pkt.payload)
    /\ Advance(c_wire, 18) = c_pkt.payload
    /\ (/\ c_pkt.packet_type = "Video"
        /\ c_pkt.sequence = <<0, 0>>
        /\ c_pkt.flags = 0
        /\ c_pkt.payload = BytesOf(<<222, 173, 190, 239>>))
       => /\ Len(c_wire.head) = 22 /\ c_wire.run = USize(0)
          /\ SubSeq(c_wire.head, 1, 5) = <<1, 0, 0, 0, 0>>
          /\ SubSeq(c_wire.head, 14, 22) = <<0, 0, 0, 0, 4, 222, 173, 190, 239>>

DeclaredLen == <<0, 0, WireWord(15), WireWord(17)>>

\* C9: from_bytes fails exactly when, in this order, fewer than 18 bytes are
\* present, or the first byte is outside 0x01..0x04, or fewer than payload_len
\* bytes follow the header; otherwise it succeeds with the payload_len bytes
\* that follow the header, and bytes after them cause no error.
C9_ParseErrors ==
    c_pc = "parsed" =>
        IF LLt(BLen(c_wire), USize(18))
        THEN ~c_res.ok /\ c_res.err = "Packet too short"
        ELSE IF At(c_wire, 1) \notin 1 .. 4
        THEN ~c_res.ok /\ c_res.err = "Invalid packet type"
        ELSE IF LLt(LSub(BLen(c_wire), USize(18), 0), DeclaredLen)
        THEN ~c_res.ok /\ c_res.err = "Incomplete payload"
        ELSE /\ c_res.ok
             /\ BLen(c_res.packet.payload) = DeclaredLen
             /\ \A i \in 1 .. (MaxCodecLen + 2) :
                    ~LLt(DeclaredLen, USize(i))
                        => At(c_res.packet.payload, i) = At(c_wire, 18 + i)

\* a parse that succeeds although bytes follow the payload
C9_Witness ==
    /\ c_pc = "parsed" /\ c_tampered
    /\ c_res.ok
    /\ LLt(DeclaredLen, LSub(BLen(c_wire), USize(18), 0))
    /\ BLen(c_res.packet.payload) = USize(MaxCodecLen)

(***************************************************************************)
(* SpecChunk: create_nal_aware_chunks applied to bounded inputs            *)
(***************************************************************************)
MaxLen == 5
MaxUnits == 2
MaxBody == 1
MaxPrefix == 2
MaxChunk == 8

RECURSIVE Fill(_, _)
\* n copies of byte b
Fill(b, n) == IF n = 0 THEN <<>> ELSE <<b>> \o Fill(b, n - 1)

RECURSIVE Strings(_, _)
\* every byte string over alphabet of length at most n
Strings(alphabet, n) ==
    IF n = 0 THEN {<<>>}
    ELSE LET shorter == Strings(alphabet, n - 1)
         IN  shorter \cup {<<b>> \o r : b \in alphabet, r \in shorter}

\* a start code followed by a body of NAL bytes
Units ==
    {code \o Fill(101, n) : code \in {<<0, 0, 1>>, <<0, 0, 0, 1>>}, n \in 0 .. MaxBody}

RECURSIVE UnitSeqs(_)
\* the concatenations of at most n units
UnitSeqs(n) ==
    IF n = 0 THEN {<<>>}
    ELSE LET shorter == UnitSeqs(n - 1)
         IN  shorter \cup {u \o r : u \in Units, r \in shorter}

RECURSIVE SeqsOf(_, _)
\* the concatenations of at most n members of units
SeqsOf(units, n) ==
    IF n = 0 THEN {<<>>}
    ELSE LET shorter == SeqsOf(units, n - 1)
         IN  shorter \cup {u \o r : u \in units, r \in shorter}

\* longer runs of the units of one slice byte, with and without a parameter
\* set in front
SliceRuns ==
    {head \o r : head \in {<<>>, <<0, 0, 0, 1, 103>>},
                 r \in SeqsOf({<<0, 0, 1>>, <<0, 0, 1, 101>>}, MaxUnits + 1)}

\* coded payloads: every short string over {00, 01, 65}, runs of units
\* behind a prefix that holds no start code, and longer runs of small units
ChunkPayloads ==
    Strings({0, 1, 101}, MaxLen)
        \cup {Fill(255, n) \o r : n \in 0 .. MaxPrefix, r \in UnitSeqs(MaxUnits)}
        \cup SliceRuns

InitChunk ==
    /\ k_pc = "new"
    /\ k_data \in ChunkPayloads
    /\ k_max \in 1 .. MaxChunk
    /\ k_chunks = <<>>
    /\ ConfigIdle /\ CodecIdle /\ SendIdle /\ RecvIdle /\ EngineIdle /\ PipeIdle

\* chunks = Self::create_nal_aware_chunks(&data, max_chunk_size)
Chunk ==
    /\ k_pc = "new"
    /\ k_chunks' = create_nal_aware_chunks(k_data, k_max)
    /\ k_pc' = "chunked"
    /\ UNCHANGED <<k_data, k_max>>
    /\ UNCHANGED <<config_vars, codec_vars, send_vars, recv_vars, engine_vars, pipe_vars>>

NextChunk == Chunk

SpecChunk == InitChunk /\ [][NextChunk]_vars

(***************************************************************************)
(* Claims about the chunker (checked under SpecChunk)                      *)
(***************************************************************************)
\* the offset in k_data at which the j-th chunk begins, the chunks being
\* laid end to end
ChunkOffset(j) == Len(Concat(SubSeq(k_chunks, 1, j - 1)))

\* C3: concatenating the chunks of create_nal_aware_chunks(B, max) in order
\* yields exactly B, for every payload B and every max >= 1.
C3_Complete ==
    k_pc = "chunked" => Concat(k_chunks) = k_data

\* a payload with a prefix and several units, cut into several chunks
C3_Witness ==
    /\ k_pc = "chunked"
    /\ Len(k_chunks) >= 4
    /\ Len(find_nal_boundaries(k_data)) >= 2
    /\ find_nal_boundaries(k_data)[1] > 0

\* C36: for every payload and every max_chunk_size >= 1, every chunk of
\* create_nal_aware_chunks is non-empty
C36_NoEmptyChunk ==
    k_pc = "chunked" => \A j \in 1 .. Len(k_chunks) : k_chunks[j] # <<>>

\* a start code (00 00 01 or 00 00 00 01) begins at offset i of data
StartCodeAt(data, i) ==
    \/ /\ i + 2 < Len(data)
       /\ SubSeq(data, i + 1, i + 3) = <<0, 0, 1>>
    \/ /\ i + 3 < Len(data)
       /\ SubSeq(data, i + 1, i + 4) = <<0, 0, 0, 1>>

\* C4 as stated: every chunk no larger than max_payload begins at offset 0
\* or at a start code of B (stated here only for the payloads that hold a
\* start code, where it already fails).
C4_Original ==
    (k_pc = "chunked" /\ find_nal_boundaries(k_data) # <<>>) =>
        \A j \in 1 .. Len(k_chunks) :
            Len(k_chunks[j]) <= k_max =>
                (ChunkOffset(j) = 0 \/ StartCodeAt(k_data, ChunkOffset(j)))

\* the start codes the scanner reports, and where the u-th unit ends
FoundBoundaries == find_nal_boundaries(k_data)

UnitEnd(u) ==
    IF u < Len(FoundBoundaries) THEN FoundBoundaries[u + 1] ELSE Len(k_data)

\* offset off is where a second or later slice of a unit larger than k_max
\* begins: inside the unit, a multiple of k_max after its start code
ContinuationSlice(off) ==
    \E u \in 1 .. Len(FoundBoundaries) :
        /\ UnitEnd(u) - FoundBoundaries[u] > k_max
        /\ FoundBoundaries[u] < off
        /\ off < UnitEnd(u)
        /\ (off - FoundBoundaries[u]) % k_max = 0

\* C4 (as amended): when B holds start codes, every chunk begins at offset 0
\* or at a start-code boundary of B, except the second and later slices of a
\* unit larger than max_payload, which begin a multiple of max_payload bytes
\* after that unit's start code; when B holds no start code, the chunks
\* begin at the multiples of max_payload.
C4_Boundaries ==
    k_pc = "chunked" =>
        \A j \in 1 .. Len(k_chunks) :
            IF FoundBoundaries = <<>>
            THEN ChunkOffset(j) = (j - 1) * k_max
            ELSE \/ ChunkOffset(j) = 0
                 \/ \E u \in 1 .. Len(FoundBoundaries) :
                        ChunkOffset(j) = FoundBoundaries[u]
                 \/ ContinuationSlice(ChunkOffset(j))

\* chunks that begin at a start code past offset 0, and a continuation slice
C4_Witness ==
    /\ k_pc = "chunked"
    /\ \E j \in 1 .. Len(k_chunks) :
          /\ ChunkOffset(j) > 0
          /\ \E u \in 1 .. Len(FoundBoundaries) : ChunkOffset(j) = FoundBoundaries[u]
          /\ Len(k_chunks[j]) > 0
    /\ \E j \in 1 .. Len(k_chunks) : ContinuationSlice(ChunkOffset(j))

\* the 3-byte and the 4-byte start code at offset i of data
ThreeByteCodeAt(data, i) ==
    i >= 0 /\ i + 3 <= Len(data) /\ SubSeq(data, i + 1, i + 3) = <<0, 0, 1>>
FourByteCodeAt(data, i) ==
    i >= 0 /\ i + 4 <= Len(data) /\ SubSeq(data, i + 1, i + 4) = <<0, 0, 0, 1>>

\* the offsets at which a start code begins, a 4-byte code counted once at
\* its first byte
StartCodeOffsets(data) ==
    {i \in 0 .. Len(data) :
        \/ FourByteCodeAt(data, i)
        \/ ThreeByteCodeAt(data, i) /\ ~FourByteCodeAt(data, i - 1)}

\* C30: for every byte string, find_nal_boundaries returns in ascending
\* order exactly the offsets at which a start code (00 00 00 01 or 00 00 01,
\* a 4-byte code once at its first byte) begins, a start code that ends at
\* the last byte of the string included.
C30_Detection ==
    k_pc = "chunked" =>
        /\ \A j \in 1 .. Len(FoundBoundaries) - 1 :
               FoundBoundaries[j] < FoundBoundaries[j + 1]
        /\ {FoundBoundaries[j] : j \in 1 .. Len(FoundBoundaries)}
               = StartCodeOffsets(k_data)

\* the payload is made of start-code units, none larger than k_max
SmallUnitsOnly ==
    /\ FoundBoundaries # <<>>
    /\ FoundBoundaries[1] = 0
    /\ \A u \in 1 .. Len(FoundBoundaries) : UnitEnd(u) - FoundBoundaries[u] <= k_max

\* the size of the unit that begins at offset off, or 0 if none does
UnitSizeAt(off) ==
    LET us == {u \in 1 .. Len(FoundBoundaries) : FoundBoundaries[u] = off}
    IN  IF us = {} THEN 0
        ELSE LET u == CHOOSE v \in us : TRUE IN UnitEnd(u) - off

\* C28: for a payload made of start-code units none larger than max_payload,
\* the chunker closes the current chunk before a unit only when adding that
\* unit would make the chunk larger than max_payload, so that consecutive
\* units that fit together share a chunk wherever in the payload they lie.
C28_Greedy ==
    (k_pc = "chunked" /\ SmallUnitsOnly) =>
        \A j \in 1 .. Len(k_chunks) - 1 :
            /\ UnitSizeAt(ChunkOffset(j + 1)) > 0
            /\ Len(k_chunks[j]) + UnitSizeAt(ChunkOffset(j + 1)) > k_max

\* the least member of a non-empty set of numbers
Least(S) == CHOOSE x \in S : \A y \in S : x <= y

\* the start-code units of k_data: each begins at a start code and ends
\* where the next start code begins, or with the payload
CodeUnits ==
    LET offs == StartCodeOffsets(k_data)
    IN  {[start |-> b, end |-> Least({t \in offs : t > b} \cup {Len(k_data)})] :
            b \in offs}

\* the j-th chunk holds a byte of unit
Overlaps(j, unit) ==
    /\ ChunkOffset(j) < unit.end
    /\ unit.start < ChunkOffset(j) + Len(k_chunks[j])

\* the j-th chunk is one of the slices of unit: it lies inside the unit, a
\* multiple of k_max after its start code, and is k_max bytes long unless
\* the unit ends before
SliceOf(j, unit) ==
    /\ unit.start <= ChunkOffset(j)
    /\ ChunkOffset(j) + Len(k_chunks[j]) <= unit.end
    /\ (ChunkOffset(j) - unit.start) % k_max = 0
    /\ Len(k_chunks[j]) = Min(k_max, unit.end - ChunkOffset(j))

\* C29: a start-code unit larger than max_payload shares no chunk with bytes
\* of a neighbouring unit; it is cut into consecutive slices of exactly
\* max_payload bytes (the last may be shorter), the first of which begins at
\* the unit's start code.
C29_Oversized ==
    k_pc = "chunked" =>
        \A unit \in CodeUnits :
            unit.end - unit.start > k_max =>
                \A j \in 1 .. Len(k_chunks) : Overlaps(j, unit) => SliceOf(j, unit)

(***************************************************************************)
(* Spec: a send session of one UdpTransport                                *)
(***************************************************************************)
MaxFrames == 3
MaxPayloadSize == 4

\* max_packet_size: one value below the reserve, and the values that leave
\* 0 .. MaxPayloadSize bytes of payload
PacketSizes ==
    {HEADER_RESERVE - 1} \cup {HEADER_RESERVE + n : n \in 0 .. MaxPayloadSize}

\* the clock readings of Packet::new
SendTimes == {<<258, 772, 1286, 1800>>}

\* the coded payloads of the session
SessionPayloads == {<<>>, <<222, 173, 190>>, <<222, 173, 190, 239>>}

\* self.sequence is 0 in a new transport, and is 2^32 - 2 after that many
\* datagrams have been numbered
SeqStarts == {U32(0), <<Base - 1, Base - 2>>}

NoStats == [packets_sent |-> 0, bytes_sent |-> 0]

\* UdpTransport::new
FreshTransport ==
    /\ t_state = "ready"
    /\ socket = FALSE /\ peer_addr = FALSE /\ config = None
    /\ sequence = U32(0)
    /\ stats = NoStats

\* a transport that was initialised and connected, and has numbered
\* 2^32 - 2 datagrams none of which the socket accepted
AgedTransport ==
    /\ t_state = "ready"
    /\ socket = TRUE /\ peer_addr = TRUE
    /\ config \in {Some(m) : m \in PacketSizes}
    /\ sequence \in SeqStarts \ {U32(0)}
    /\ stats = NoStats

Init ==
    /\ FreshTransport \/ AgedTransport
    /\ seq0 = sequence
    /\ socket_log = <<>> /\ calls = <<>>
    /\ budget = MaxFrames
    /\ source = SessionPayloads
    /\ ConfigIdle /\ CodecIdle /\ ChunkIdle /\ RecvIdle /\ EngineIdle /\ PipeIdle

\* UdpTransport::init, when the bind succeeds; the server calls it once
InitTransport ==
    /\ t_state = "ready"
    /\ config = None
    /\ \E m \in PacketSizes : config' = Some(m)
    /\ socket' = TRUE
    /\ UNCHANGED <<t_state, peer_addr, sequence, stats, socket_log, calls, budget,
                   source, seq0>>
    /\ UNCHANGED <<config_vars, codec_vars, chunk_vars, recv_vars, engine_vars, pipe_vars>>

\* UdpTransport::connect, when socket.connect succeeds
Connect ==
    /\ t_state = "ready"
    /\ socket
    /\ ~peer_addr
    /\ peer_addr' = TRUE
    /\ UNCHANGED <<t_state, socket, config, sequence, stats, socket_log, calls, budget,
                   source, seq0>>
    /\ UNCHANGED <<config_vars, codec_vars, chunk_vars, recv_vars, engine_vars, pipe_vars>>

\* UdpTransport::disconnect
Disconnect ==
    /\ t_state = "ready"
    /\ socket
    /\ socket' = FALSE
    /\ peer_addr' = FALSE
    /\ UNCHANGED <<t_state, config, sequence, stats, socket_log, calls, budget,
                   source, seq0>>
    /\ UNCHANGED <<config_vars, codec_vars, chunk_vars, recv_vars, engine_vars, pipe_vars>>

RECURSIVE SumLen(_)
\* the total length of a sequence of datagrams
SumLen(ws) == IF ws = <<>> THEN 0 ELSE Len(Head(ws).head) + SumLen(Tail(ws))

\* the record of one call of send
Call(data, result, attempts) ==
    [data |-> data, result |-> result,
     first |-> Len(socket_log) + 1, attempts |-> attempts,
     max_packet_size |-> IF config.some THEN config.val ELSE 0,
     connected |-> socket /\ peer_addr]

\* The body of UdpTransport::send(data), send_fragmented_nal_aware included,
\* with ts the clock reading of Packet::new.  fail_at = 0: every socket.send
\* succeeds; otherwise the fail_at-th socket.send of the call fails and the
\* call returns the error.
TransportSend(data, ts) ==
    IF ~socket \/ ~peer_addr
    THEN /\ calls' = Append(calls, Call(data, "Err", 0))
         /\ UNCHANGED <<t_state, sequence, stats, socket_log>>
    ELSE LET outcome == IF NeedsFragmentation(data, config.val)
                        THEN ChunkerOutcome(data, max_payload_size(config.val))
                        ELSE "ok"
         IN  IF outcome # "ok"
             THEN /\ t_state' = (IF outcome = "panic" THEN "panicked" ELSE "hung")
                  /\ calls' = Append(calls, Call(data, outcome, 0))
                  /\ UNCHANGED <<sequence, stats, socket_log>>
             ELSE LET dgs == SendDatagrams(data, config.val, sequence, ts)
                  IN  \E fail_at \in 0 .. Len(dgs) :
                        LET attempts == IF fail_at = 0 THEN Len(dgs) ELSE fail_at
                            sent == IF fail_at = 0 THEN Len(dgs) ELSE fail_at - 1
                        IN  /\ socket_log' = socket_log \o
                                    [i \in 1 .. attempts |->
                                        [wire |-> dgs[i], ok |-> i <= sent]]
                            /\ sequence' = SeqPlus(sequence, attempts)
                            /\ stats' =
                                 [packets_sent |-> stats.packets_sent + sent,
                                  bytes_sent |-> stats.bytes_sent
                                                   + SumLen(SubSeq(dgs, 1, sent))]
                            /\ calls' = Append(calls,
                                    Call(data, IF fail_at = 0 THEN "Ok" ELSE "Err",
                                         attempts))
                            /\ UNCHANGED t_state

\* a task calls UdpTransport::send with one of the session's payloads
Send ==
    /\ t_state = "ready"
    /\ Len(calls) < budget
    /\ \E data \in source, ts \in SendTimes : TransportSend(data, ts)
    /\ UNCHANGED <<socket, peer_addr, config, budget, source, seq0>>
    /\ UNCHANGED <<config_vars, codec_vars, chunk_vars, recv_vars, engine_vars, pipe_vars>>

Next == InitTransport \/ Connect \/ Disconnect \/ Send

Spec == Init /\ [][Next]_vars

(***************************************************************************)
(* SpecFrame: one coded payload sent by a connected transport, its         *)
(* datagrams arriving in order at a FragmentBuffer, some of them lost      *)
(***************************************************************************)
MaxLost == 2

\* a payload whose first start code comes after a long run of other bytes
LongPrefix == Fill(255, 34) \o <<0, 0, 1, 101>>

FramePayloads ==
    SessionPayloads
        \cup {<<0, 0, 1, 101, 221>>, <<0, 0, 1, 103, 0, 0, 1, 101, 221>>, LongPrefix}

\* the chain of a receiver that missed the last fragment of the frame before
PendingChain(seq) ==
    [fragments |-> <<<<170>>>>, expected_sequence |-> Some(LSub(seq, U32(1), 0))]

InitFrame ==
    /\ t_state = "ready"
    /\ socket = TRUE /\ peer_addr = TRUE
    /\ config \in {Some(m) : m \in PacketSizes}
    /\ sequence \in SeqStarts
    /\ seq0 = sequence
    /\ stats = NoStats
    /\ socket_log = <<>> /\ calls = <<>>
    /\ budget = 1
    /\ source = FramePayloads
    /\ rx_buf \in {NewFragmentBuffer, PendingChain(sequence)}
    /\ rx_start = rx_buf
    /\ rx_pos = 0 /\ rx_log = <<>>
    /\ rx_stats = NoRxStats
    /\ ConfigIdle /\ CodecIdle /\ ChunkIdle /\ EngineIdle /\ PipeIdle

\* the datagrams the socket accepted, in the order sent
Emitted == SelectSeq(socket_log, LAMBDA e : e.ok)

Lost == Cardinality({j \in 1 .. Len(rx_log) : rx_log[j].lost})

\* the sequence numbers of the fragments a chain of the receiver was built
\* from, for the chain the receiver starts with
StartChain ==
    IF rx_start.fragments = <<>> THEN <<>>
    ELSE <<LSub(rx_start.expected_sequence.val, U32(1), 0)>>

\* the same for the chain the receiver holds now
Chain == IF rx_log = <<>> THEN StartChain ELSE rx_log[Len(rx_log)].chain

\* the next datagram arrives: it is parsed and handed to add_fragment
Deliver ==
    /\ rx_pos < Len(Emitted)
    /\ LET parsed == from_bytes(Emitted[rx_pos + 1].wire)
           r == add_fragment(rx_buf, parsed.packet)
           chain == IF r.buf.fragments = <<>> THEN <<>>
                    ELSE IF Len(r.buf.fragments) = Len(rx_buf.fragments) + 1
                         THEN Append(Chain, parsed.packet.sequence)
                         ELSE Chain
       IN  /\ parsed.ok
           /\ rx_buf' = r.buf
           /\ rx_log' = Append(rx_log, [lost |-> FALSE, out |-> r.out,
                                        before |-> rx_buf, after |-> r.buf,
                                        chain |-> chain])
    /\ rx_pos' = rx_pos + 1
    /\ UNCHANGED <<rx_start, rx_stats>>
    /\ UNCHANGED <<config_vars, codec_vars, chunk_vars, send_vars, engine_vars, pipe_vars>>

\* the next datagram is lost on the way
Lose ==
    /\ rx_pos < Len(Emitted)
    /\ Lost < MaxLost
    /\ rx_log' = Append(rx_log, [lost |-> TRUE, out |-> None,
                                 before |-> rx_buf, after |-> rx_buf,
                                 chain |-> Chain])
    /\ rx_pos' = rx_pos + 1
    /\ UNCHANGED <<rx_buf, rx_start, rx_stats>>
    /\ UNCHANGED <<config_vars, codec_vars, chunk_vars, send_vars, engine_vars, pipe_vars>>

NextFrame == Send \/ Deliver \/ Lose

SpecFrame == InitFrame /\ [][NextFrame]_vars

(***************************************************************************)
(* Claims about sending (checked under Spec and SpecFrame)                 *)
(***************************************************************************)
\* the header fields of a logged datagram, read from its bytes
WireSeq(e) == <<e.wire.head[2] * 256 + e.wire.head[3],
                e.wire.head[4] * 256 + e.wire.head[5]>>

WireFlags(e) == e.wire.head[14]

WirePayload(e) == SubSeq(e.wire.head, 19, Len(e.wire.head))

WireFragment(e) == (WireFlags(e) \div 2) % 2 = 1

\* b is the u32 after a, modulo 2^32
Succ32(a, b) ==
    /\ b[2] = (a[2] + 1) % Base
    /\ b[1] = IF a[2] = Base - 1 THEN (a[1] + 1) % Base ELSE a[1]

\* the numbers in ns are consecutive modulo 2^32 and begin with first
Consecutive(first, ns) ==
    /\ Len(ns) > 0 => ns[1] = first
    /\ \A i \in 1 .. (Len(ns) - 1) : Succ32(ns[i], ns[i + 1])

\* the datagrams that call c handed to the socket
Attempted(c) == SubSeq(socket_log, c.first, c.first + c.attempts - 1)

\* C5 as stated: every datagram send hands to the socket is at most
\* max_packet_size bytes long, header included.
C5_DatagramSize ==
    \A k \in 1 .. Len(calls) :
        \A i \in 1 .. Len(Attempted(calls[k])) :
            Len(Attempted(calls[k])[i].wire.head) <= calls[k].max_packet_size

\* C6 as stated: the sequence numbers of the datagrams actually emitted are
\* consecutive modulo 2^32 from the session's first number, with no gap.
C6_Original ==
    Consecutive(seq0, [i \in 1 .. Len(Emitted) |-> WireSeq(Emitted[i])])

\* C6 (as amended): the sequence numbers of the datagrams handed to the
\* socket are consecutive modulo 2^32 from the session's first number, one
\* per socket send attempted, fragmented or not; a datagram whose socket send
\* fails still uses up its number, so the emitted numbers are gap-free only
\* while no socket send fails; after 2^32 - 1 the next number is 0 (from
\* 2^32 - 2, three datagrams carry 2^32 - 2, 2^32 - 1, 0).
C6_Sequence ==
    LET ns == [i \in 1 .. Len(socket_log) |-> WireSeq(socket_log[i])]
    IN  /\ Consecutive(seq0, ns)
        /\ Len(ns) > 0 => Succ32(ns[Len(ns)], sequence)
        /\ Len(ns) = 0 => sequence = seq0
        /\ (seq0 = <<Base - 1, Base - 2>> /\ Len(ns) >= 3)
              => SubSeq(ns, 1, 3) = <<<<Base - 1, Base - 2>>,
                                      <<Base - 1, Base - 1>>, <<0, 0>>>>
        /\ (\A i \in 1 .. Len(socket_log) : socket_log[i].ok)
              => Consecutive(seq0, [i \in 1 .. Len(Emitted) |-> WireSeq(Emitted[i])])

\* three unfragmented frames sent from 2^32 - 2, all accepted by the socket
C6_Witness ==
    /\ seq0 = <<Base - 1, Base - 2>>
    /\ Len(calls) = 3
    /\ \A k \in 1 .. 3 : calls[k].result = "Ok" /\ calls[k].attempts = 1
    /\ Len(Emitted) = 3
    /\ WireSeq(Emitted[3]) = <<0, 0>>
    /\ sequence = <<0, 1>>

Threshold(c) ==
    IF c.max_packet_size >= 50 THEN c.max_packet_size - 50 ELSE 0

FragmentedFrame ==
    /\ Len(calls) = 1
    /\ calls[1].result = "Ok"
    /\ Len(calls[1].data) > Threshold(calls[1])

NoFrameAt(j) == ~rx_log[j].out.some

ChainEmpty == rx_buf.fragments = <<>> /\ ~rx_buf.expected_sequence.some

\* C1: from an empty chain, the fragments of one fragmented send, fed to
\* add_fragment in the order emitted, yield no frame before the last and on
\* the last exactly one frame, byte-identical to the payload, leaving the
\* chain empty.
C1_Reassembly ==
    (FragmentedFrame /\ ~rx_start.expected_sequence.some /\ Lost = 0) =>
        /\ \A j \in 1 .. rx_pos :
              IF j < Len(Emitted) THEN NoFrameAt(j)
              ELSE /\ rx_log[j].out.some
                   /\ rx_log[j].out.val.head = calls[1].data
                   /\ rx_log[j].out.val.run = <<0, 0, 0, 0>>
        /\ rx_pos = Len(Emitted) => ChainEmpty

\* a chain of at least three fragments whose numbers wrap, delivered whole
C1_Witness ==
    /\ FragmentedFrame /\ ~rx_start.expected_sequence.some /\ Lost = 0
    /\ seq0 = <<Base - 1, Base - 2>>
    /\ Len(Emitted) >= 3
    /\ rx_pos = Len(Emitted)
    /\ rx_log[rx_pos].out.some
    /\ Len(find_nal_boundaries(calls[1].data)) >= 2

\* C2 as stated: a chain f0..fn (n >= 2) delivered in order to an empty
\* receiver with one middle fragment omitted yields no frame and leaves the
\* chain empty.
C2_Resync ==
    (/\ FragmentedFrame /\ ~rx_start.expected_sequence.some
     /\ Len(Emitted) >= 3
     /\ rx_pos = Len(Emitted)
     /\ \E i \in 2 .. (Len(Emitted) - 1) :
            \A j \in 1 .. rx_pos : rx_log[j].lost <=> j = i)
        => /\ \A j \in 1 .. rx_pos : NoFrameAt(j)
           /\ ChainEmpty

\* the j-th datagram arrived as a FRAGMENT packet whose sequence is not the
\* one the receiver expected
Mismatched(j) ==
    /\ ~rx_log[j].lost
    /\ WireFragment(Emitted[j])
    /\ rx_log[j].before.expected_sequence.some
    /\ rx_log[j].before.expected_sequence.val # WireSeq(Emitted[j])

\* C31: in every state of the receiver the fragment list is empty exactly
\* when the expected sequence is absent; the fragments of a non-empty chain
\* carry consecutive sequence numbers modulo 2^32 and the expected sequence
\* is the last of them plus one; a FRAGMENT packet whose sequence differs
\* from the expected one empties the chain and yields nothing.
C31_ChainInvariant ==
    /\ (rx_buf.fragments = <<>>) <=> ~rx_buf.expected_sequence.some
    /\ Len(Chain) = Len(rx_buf.fragments)
    /\ \A i \in 1 .. (Len(Chain) - 1) : Succ32(Chain[i], Chain[i + 1])
    /\ Chain # <<>> => Succ32(Chain[Len(Chain)], rx_buf.expected_sequence.val)
    /\ \A j \in 1 .. Len(rx_log) :
           Mismatched(j) => /\ rx_log[j].after = NewFragmentBuffer
                            /\ ~rx_log[j].out.some

\* after a mismatch emptied the chain, the receiver holds a chain of two
\* fragments whose numbers wrap around 2^32
C31_Witness ==
    /\ \E j \in 1 .. Len(rx_log) : Mismatched(j)
    /\ Len(Chain) >= 2
    /\ Chain[Len(Chain)] = U32(0)

\* C35: whatever datagrams are lost, each frame the receiver yields on a
\* FRAGMENT packet is byte-identical to the whole payload the sender
\* fragmented, never a part of it
C35_FrameIntegrity ==
    \A j \in 1 .. Len(rx_log) :
        (rx_log[j].out.some /\ WireFragment(Emitted[j])) =>
            /\ rx_log[j].out.val.head = calls[1].data
            /\ rx_log[j].out.val.run = <<0, 0, 0, 0>>

(***************************************************************************)
(* Claims about the fragment flags (checked under Spec and SpecFrame)      *)
(***************************************************************************)
WireLast(e) == (WireFlags(e) \div 4) % 2 = 1

\* call c of send returned after taking the fragmenting branch
Fragmenting(c) ==
    /\ c.connected
    /\ c.result \in {"Ok", "Err"}
    /\ Len(c.data) > Threshold(c)

\* the chunks call c cut its payload into
CallChunks(c) == create_nal_aware_chunks(c.data, max_payload_size(c.max_packet_size))

\* C12: in a fragmented send of n chunks the datagrams are handed to the
\* socket in chunk order (the i-th carries the i-th chunk and the i-th
\* sequence number of the call), every one has the FRAGMENT flag, and
\* LAST_FRAGMENT is set on the n-th and on no other; a send that returns Ok
\* has emitted all n, a send that returns an error stopped at the failed
\* socket send and emitted the datagrams before it.
C12_FragmentFlags ==
    \A k \in 1 .. Len(calls) :
        Fragmenting(calls[k]) =>
            LET chunks == CallChunks(calls[k])
                n == Len(chunks)
                dg == Attempted(calls[k])
            IN  /\ n >= 1
                /\ Len(dg) <= n
                /\ calls[k].result = "Ok" =>
                        Len(dg) = n /\ \A i \in 1 .. n : dg[i].ok
                /\ calls[k].result = "Err" =>
                        /\ ~dg[Len(dg)].ok
                        /\ \A i \in 1 .. (Len(dg) - 1) : dg[i].ok
                /\ \A i \in 1 .. Len(dg) :
                        /\ WirePayload(dg[i]) = chunks[i]
                        /\ WireFragment(dg[i])
                        /\ WireLast(dg[i]) <=> i = n
                /\ \A i \in 1 .. (Len(dg) - 1) :
                        Succ32(WireSeq(dg[i]), WireSeq(dg[i + 1]))

\* a send that cut its payload into at least three chunks and emitted all
C12_Witness ==
    \E k \in 1 .. Len(calls) :
        /\ Fragmenting(calls[k])
        /\ calls[k].result = "Ok"
        /\ calls[k].attempts >= 3
        /\ WireLast(Attempted(calls[k])[calls[k].attempts])
        /\ ~WireLast(Attempted(calls[k])[1])

\* C13 as stated: a packet without the FRAGMENT flag handed to add_fragment,
\* whatever the chain holds, yields its payload as one frame and leaves the
\* chain empty.
C13_NonFragment ==
    (/\ rx_pos >= 1
     /\ ~rx_log[rx_pos].lost
     /\ ~WireFragment(Emitted[rx_pos]))
        => /\ rx_log[rx_pos].out = Some(BytesOf(WirePayload(Emitted[rx_pos])))
           /\ ChainEmpty

(***************************************************************************)
(* SpecEngine: the lifecycle of one StreamingEngine and its worker tasks   *)
(* (kd-core/src/engine.rs)                                                 *)
(***************************************************************************)
MaxEngineCalls == 4
MaxEngineFrames == 2

ENGINE_FRAME_CHANNEL_SIZE == 32
ENCODED_CHANNEL_SIZE == 64
KEYFRAME_EVERY == 60

\* StreamConfig::default, and a configuration that differs from it in the
\* video geometry and in the bitrate
DefaultStreamConfig ==
    [video |-> [width |-> 1920, height |-> 1080, bitrate_kbps |-> 10000]]
StreamConfigs ==
    {DefaultStreamConfig,
     [video |-> [width |-> 1280, height |-> 720, bitrate_kbps |-> 5000]]}

\* StreamingEngine::new
InitEngine ==
    /\ e_running = FALSE
    /\ e_frame_rx = TRUE /\ e_encoded_rx = TRUE
    /\ e_pc = [w \in EngineWorkers |-> "none"]
    /\ e_shutdown_rx = [w \in EngineWorkers |-> FALSE]
    /\ e_frames = <<>> /\ e_encoded = <<>>
    /\ e_stats = [frames_encoded |-> 0, frames_sent |-> 0, bytes_sent |-> 0]
    /\ e_pushed = 0 /\ e_log = <<>>
    /\ e_config = DefaultStreamConfig /\ e_update = None
    /\ ConfigIdle /\ CodecIdle /\ ChunkIdle /\ SendIdle /\ RecvIdle /\ PipeIdle

\* StreamingEngine::is_running
is_running == e_running

\* a start that never finds the engine running
StartRejected_Never(running) == FALSE

\* the test `if *running` of start
StartRejected(running) == running

\* the record of one call of start or stop
EngineCall(op, result, running_after, pc_after) ==
    [op |-> op, result |-> result,
     running_before |-> e_running, running_after |-> running_after,
     pc_before |-> e_pc, pc_after |-> pc_after]

\* StreamingEngine::start.  The running flag is set before the subsystems
\* are started; start_encoding_loop and start_network_loop take the
\* receivers out of the engine and fail when they are gone.
EngineStart ==
    /\ Len(e_log) < MaxEngineCalls
    /\ IF StartRejected(e_running)
       THEN /\ UNCHANGED <<e_running, e_frame_rx, e_encoded_rx, e_pc>>
            /\ e_log' = Append(e_log,
                   EngineCall("start", "AlreadyRunning", e_running, e_pc))
       ELSE /\ e_running' = TRUE
            /\ IF ~e_frame_rx
               THEN /\ UNCHANGED <<e_frame_rx, e_encoded_rx, e_pc>>
                    /\ e_log' = Append(e_log,
                           EngineCall("start", "Config", TRUE, e_pc))
               ELSE /\ e_frame_rx' = FALSE
                    /\ IF ~e_encoded_rx
                       THEN /\ e_pc' = [e_pc EXCEPT !["encoding"] = "loop"]
                            /\ UNCHANGED e_encoded_rx
                            /\ e_log' = Append(e_log,
                                   EngineCall("start", "Config", TRUE,
                                              [e_pc EXCEPT !["encoding"] = "loop"]))
                       ELSE /\ e_encoded_rx' = FALSE
                            /\ e_pc' = [w \in EngineWorkers |-> "loop"]
                            /\ e_log' = Append(e_log,
                                   EngineCall("start", "Ok", TRUE,
                                              [w \in EngineWorkers |-> "loop"]))
    /\ UNCHANGED <<e_shutdown_rx, e_frames, e_encoded, e_stats, e_pushed>>
    /\ UNCHANGED <<e_config, e_update>>
    /\ UNCHANGED <<config_vars, codec_vars, chunk_vars, send_vars, recv_vars,
                   pipe_vars>>

\* the tasks that hold a live shutdown receiver
Subscribed(w) == e_pc[w] \in {"loop", "counting"}

\* StreamingEngine::stop: publishes the shutdown message, clears the flag and
\* returns
EngineStop ==
    /\ Len(e_log) < MaxEngineCalls
    /\ IF ~e_running
       THEN /\ UNCHANGED <<e_running, e_shutdown_rx>>
            /\ e_log' = Append(e_log, EngineCall("stop", "NotRunning", e_running, e_pc))
       ELSE /\ e_shutdown_rx' =
                  [w \in EngineWorkers |-> e_shutdown_rx[w] \/ Subscribed(w)]
            /\ e_running' = FALSE
            /\ e_log' = Append(e_log, EngineCall("stop", "Ok", FALSE, e_pc))
    /\ UNCHANGED <<e_frame_rx, e_encoded_rx, e_pc, e_frames, e_encoded, e_stats,
                   e_pushed>>
    /\ UNCHANGED <<e_config, e_update>>
    /\ UNCHANGED <<config_vars, codec_vars, chunk_vars, send_vars, recv_vars,
                   pipe_vars>>

\* a capture side holding get_frame_sender() pushes a frame; the send fails
\* once the encoding task has dropped the receiver
PushFrame ==
    /\ e_pushed < MaxEngineFrames
    /\ e_pushed' = e_pushed + 1
    /\ IF e_pc["encoding"] = "exited"
       THEN UNCHANGED e_frames
       ELSE /\ Len(e_frames) < ENGINE_FRAME_CHANNEL_SIZE
            /\ e_frames' = Append(e_frames, [frame_number |-> e_pushed, size |-> 1])
    /\ UNCHANGED <<e_running, e_frame_rx, e_encoded_rx, e_pc, e_shutdown_rx,
                   e_encoded, e_stats, e_log>>
    /\ UNCHANGED <<e_config, e_update>>
    /\ UNCHANGED <<config_vars, codec_vars, chunk_vars, send_vars, recv_vars,
                   pipe_vars>>

\* the configuration the encoding task holds: start_encoding_loop moves the
\* frame receiver, a packet sender, a shutdown receiver and the statistics
\* into the task, and neither the configuration nor its lock
EncodingTaskConfig == None

\* encoding task: Some(frame) = frame_rx.recv(), then encoded_tx.send(packet)
EncodingRecv ==
    /\ e_pc["encoding"] = "loop"
    /\ e_frames # <<>>
    /\ e_frames' = Tail(e_frames)
    /\ IF e_pc["network"] = "exited"
       THEN /\ e_pc' = [e_pc EXCEPT !["encoding"] = "exited"]
            /\ UNCHANGED e_encoded
       ELSE /\ Len(e_encoded) < ENCODED_CHANNEL_SIZE
            /\ e_encoded' = Append(e_encoded,
                   [frame_number |-> Head(e_frames).frame_number,
                    size |-> Head(e_frames).size,
                    is_keyframe |-> Head(e_frames).frame_number % KEYFRAME_EVERY = 0])
            /\ e_pc' = [e_pc EXCEPT !["encoding"] = "counting"]
    /\ UNCHANGED <<e_running, e_frame_rx, e_encoded_rx, e_shutdown_rx, e_stats,
                   e_pushed, e_log>>
    /\ UNCHANGED <<e_config, e_update>>
    /\ UNCHANGED <<config_vars, codec_vars, chunk_vars, send_vars, recv_vars,
                   pipe_vars>>

\* encoding task: s.frames_encoded += 1
EncodingCount ==
    /\ e_pc["encoding"] = "counting"
    /\ e_stats' = [e_stats EXCEPT !.frames_encoded = @ + 1]
    /\ e_pc' = [e_pc EXCEPT !["encoding"] = "loop"]
    /\ UNCHANGED <<e_running, e_frame_rx, e_encoded_rx, e_shutdown_rx, e_frames,
                   e_encoded, e_pushed, e_log>>
    /\ UNCHANGED <<e_config, e_update>>
    /\ UNCHANGED <<config_vars, codec_vars, chunk_vars, send_vars, recv_vars,
                   pipe_vars>>

\* network task: Some(packet) = encoded_rx.recv(), counted as sent
NetworkRecv ==
    /\ e_pc["network"] = "loop"
    /\ e_encoded # <<>>
    /\ e_encoded' = Tail(e_encoded)
    /\ e_stats' = [e_stats EXCEPT !.frames_sent = @ + 1,
                                  !.bytes_sent = @ + Head(e_encoded).size]
    /\ UNCHANGED <<e_running, e_frame_rx, e_encoded_rx, e_pc, e_shutdown_rx,
                   e_frames, e_pushed, e_log>>
    /\ UNCHANGED <<e_config, e_update>>
    /\ UNCHANGED <<config_vars, codec_vars, chunk_vars, send_vars, recv_vars,
                   pipe_vars>>

\* a task's select! takes the shutdown branch: the task breaks out of its
\* loop and ends, dropping its receivers and what their channels hold
WorkerShutdown ==
    /\ \E w \in EngineWorkers :
        /\ e_pc[w] = "loop"
        /\ e_shutdown_rx[w]
        /\ e_pc' = [e_pc EXCEPT ![w] = "exited"]
        /\ e_shutdown_rx' = [e_shutdown_rx EXCEPT ![w] = FALSE]
        /\ e_frames' = IF w = "encoding" THEN <<>> ELSE e_frames
        /\ e_encoded' = IF w = "network" THEN <<>> ELSE e_encoded
    /\ UNCHANGED <<e_running, e_frame_rx, e_encoded_rx, e_stats, e_pushed, e_log>>
    /\ UNCHANGED <<e_config, e_update>>
    /\ UNCHANGED <<config_vars, codec_vars, chunk_vars, send_vars, recv_vars,
                   pipe_vars>>

\* an update that overwrites the bitrate alone
update_config_BitrateOnly(old_config, new_config) ==
    [old_config EXCEPT !.video.bitrate_kbps = new_config.video.bitrate_kbps]

\* the configuration behind the lock after update_config(new_config):
\* *config = new_config
update_config(old_config, new_config) == new_config

\* StreamingEngine::update_config: takes the write lock of config, which no
\* other code holds, assigns the new configuration and returns Ok(())
UpdateConfig ==
    /\ \E new_config \in StreamConfigs :
        /\ e_config' = update_config(e_config, new_config)
        /\ e_update' = Some([new_config |-> new_config, result |-> "Ok",
                             config_before |-> e_config,
                             running_before |-> e_running])
    /\ UNCHANGED <<e_running, e_frame_rx, e_encoded_rx, e_pc, e_shutdown_rx,
                   e_frames, e_encoded, e_stats, e_pushed, e_log>>
    /\ UNCHANGED <<config_vars, codec_vars, chunk_vars, send_vars, recv_vars,
                   pipe_vars>>

NextEngine ==
    \/ UpdateConfig
    \/ EngineStart
    \/ EngineStop
    \/ PushFrame
    \/ EncodingRecv
    \/ EncodingCount
    \/ NetworkRecv
    \/ WorkerShutdown

SpecEngine == InitEngine /\ [][NextEngine]_vars

(***************************************************************************)
(* Claims about the engine lifecycle (checked under SpecEngine)            *)
(***************************************************************************)
\* the last call before the i-th that returned success, or 0
LastOk(i) ==
    LET oks == {j \in 1 .. (i - 1) : e_log[j].result = "Ok"}
    IN  IF oks = {} THEN 0 ELSE CHOOSE j \in oks : \A k \in oks : k <= j

\* before the i-th call, a start has succeeded and no stop has completed since
StartedBefore(i) == LastOk(i) # 0 /\ e_log[LastOk(i)].op = "start"

\* before the i-th call, the engine was never started or has been stopped
StoppedBefore(i) == ~StartedBefore(i)

\* the worker tasks inside their processing loops
InLoop(pc) == {w \in EngineWorkers : pc[w] \in {"loop", "counting"}}

\* C14: start returns AlreadyRunning whenever a previous start succeeded and
\* no stop has completed since, and that call changes neither is_running nor
\* the worker tasks.
C14_DoubleStart ==
    \A i \in 1 .. Len(e_log) :
        (e_log[i].op = "start" /\ StartedBefore(i)) =>
            /\ e_log[i].result = "AlreadyRunning"
            /\ e_log[i].running_after = e_log[i].running_before
            /\ e_log[i].pc_after = e_log[i].pc_before

\* start, start: the second call is rejected while both workers run
C14_Witness ==
    /\ Len(e_log) >= 2
    /\ e_log[1].op = "start" /\ e_log[1].result = "Ok"
    /\ e_log[2].op = "start" /\ e_log[2].result = "AlreadyRunning"
    /\ InLoop(e_log[2].pc_after) = EngineWorkers
    /\ e_log[2].running_after

\* C15 as stated: stop returns NotRunning if the engine was never started or
\* has already been stopped.
C15_StopNotRunning ==
    \A i \in 1 .. Len(e_log) :
        (e_log[i].op = "stop" /\ StoppedBefore(i)) =>
            e_log[i].result = "NotRunning"

\* C16 as stated: after new, start (success), stop (success), a further
\* start succeeds and leaves the engine running with its workers started
\* again.
C16_Restart ==
    \A i \in 1 .. Len(e_log) :
        (/\ e_log[i].op = "start"
         /\ LastOk(i) # 0
         /\ e_log[LastOk(i)].op = "stop"
         /\ \A j \in (LastOk(i) + 1) .. (i - 1) : e_log[j].op = "stop")
            => /\ e_log[i].result = "Ok"
               /\ e_log[i].running_after
               /\ InLoop(e_log[i].pc_after) = EngineWorkers

\* C17 as stated: is_running is false after new, true after a start that
\* returned success, false after a stop that returned success, and unchanged
\* by a start or stop that returned an error.
C17_IsRunning ==
    /\ e_log = <<>> => ~is_running
    /\ \A i \in 1 .. Len(e_log) :
        /\ (e_log[i].op = "start" /\ e_log[i].result = "Ok") => e_log[i].running_after
        /\ (e_log[i].op = "stop" /\ e_log[i].result = "Ok") => ~e_log[i].running_after
        /\ e_log[i].result # "Ok" =>
              e_log[i].running_after = e_log[i].running_before
    /\ e_log # <<>> => is_running = e_log[Len(e_log)].running_after

\* C18 as stated: at the moment a successful stop returns, no worker task is
\* still inside its processing loop.
C18_StopWaits ==
    \A i \in 1 .. Len(e_log) :
        (e_log[i].op = "stop" /\ e_log[i].result = "Ok") =>
            InLoop(e_log[i].pc_after) = {}

\* C26: in any lifecycle state update_config(c) returns success, afterwards
\* the configuration of the engine equals c as a whole, and the call leaves
\* is_running, the worker tasks and every statistics counter unchanged.
C26_UpdateConfig ==
    [][e_update' # e_update
         => /\ e_update'.val.result = "Ok"
            /\ e_config' = e_update'.val.new_config
            /\ is_running' = is_running
            /\ e_pc' = e_pc
            /\ e_stats' = e_stats]_vars

\* a running engine whose configuration has been replaced by one that differs
\* from the previous one in geometry and bitrate
C26_Witness ==
    /\ e_update # None
    /\ e_update.val.running_before
    /\ e_update.val.config_before = DefaultStreamConfig
    /\ e_config # DefaultStreamConfig
    /\ e_config = e_update.val.new_config
    /\ e_stats.frames_encoded > 0

\* the last update_config was called on a running engine and changed the
\* bitrate
BitrateChangedWhileRunning ==
    /\ e_update # None
    /\ e_update.val.running_before
    /\ e_update.val.new_config.video.bitrate_kbps
           # e_update.val.config_before.video.bitrate_kbps

\* C27: after update_config has changed bitrate_kbps on a running pipeline,
\* the bitrate the encoder stage is configured with equals the new value for
\* every frame encoded after the call.
C27_BitrateReachesEncoder ==
    [][(BitrateChangedWhileRunning /\ Len(e_encoded') > Len(e_encoded))
         => /\ EncodingTaskConfig # None
            /\ EncodingTaskConfig.val.video.bitrate_kbps
                   = e_update.val.new_config.video.bitrate_kbps]_vars

\* C40: in every reachable state frames_sent <= frames_encoded, and no
\* counter of the statistics ever decreases
C40_CounterOrdering ==
    /\ [](e_stats.frames_sent <= e_stats.frames_encoded)
    /\ [][/\ e_stats'.frames_encoded >= e_stats.frames_encoded
          /\ e_stats'.frames_sent >= e_stats.frames_sent
          /\ e_stats'.bytes_sent >= e_stats.bytes_sent]_vars

(***************************************************************************)
(* SpecServer: the capture, encoder and network tasks of one               *)
(* StreamingServer (kd-server/src/server.rs)                               *)
(***************************************************************************)
MaxCaptured == 2
MaxCaptureErrors == 1

FRAME_CHANNEL_SIZE == 8
PACKET_CHANNEL_SIZE == 32
MAX_CONSECUTIVE_ERRORS == 100

\* max_packet_size of the server's configuration: one value under which a
\* serialized coded packet is sent whole, one under which it is fragmented
NetPacketSizes == {HEADER_RESERVE + 11, HEADER_RESERVE + HEADER_SIZE + 4}

\* the coded payloads the encoder returns
EncodedPayloads == {<<0, 0, 1, 101>>}

\* what encoder.encode returns for a frame
EncodeOutcomes ==
    {[kind |-> "Some", data |-> d, is_keyframe |-> k] :
        d \in EncodedPayloads, k \in BOOLEAN}
        \cup {[kind |-> "None"], [kind |-> "Err"]}

\* what VideoEncoder::flush may return: the packets the encoder still holds
\* (the encoders of kd-encoder hold none and return an empty list)
FlushOutcomes ==
    {<<>>, <<[data |-> <<0, 0, 1, 65>>, is_keyframe |-> FALSE]>>}

\* the stage of start at which initialisation fails, if any
StartFailures == {"none", "capture", "encoder", "network", "input"}

\* StreamingServer::new, with a new UdpTransport not yet created, before a
\* run in which the capture device yields n frames and up to e errors in a
\* row
NewServer(n, e) ==
    /\ cap_budget = [frames |-> n, errors |-> e]
    /\ flushed = None
    /\ inbox = 0
    /\ cap_pc = "idle" /\ enc_pc = "idle" /\ net_pc = "idle"
    /\ shutdown_rx = [w \in ServerWorkers \cup AuxWorkers |-> FALSE]
    /\ aux_pc = [w \in AuxWorkers |-> "idle"]
    /\ srv_state = "new"
    /\ q1 = <<>> /\ q2 = <<>>
    /\ metrics = NoMetrics
    /\ cap_frame = None /\ enc_item = None
    /\ cap_frame_number = 0 /\ enc_frame_number = 0
    /\ consecutive_errors = 0
    /\ enc_log = <<>>
    /\ net_sequence = U32(0) /\ net_log = <<>>
    /\ FreshTransport
    /\ seq0 = sequence
    /\ socket_log = <<>> /\ calls = <<>>
    /\ budget = 0 /\ source = {}
    /\ ConfigIdle /\ CodecIdle /\ ChunkIdle /\ RecvIdle /\ EngineIdle

InitServer == NewServer(MaxCaptured, MaxCaptureErrors)

\* StreamingServer::start: the stages are initialised and their tasks
\* spawned in order; a stage that fails returns the error at once.  The
\* network stage creates the transport and calls init on it.
ServerStart ==
    /\ srv_state = "new"
    /\ \E fail \in StartFailures, m \in NetPacketSizes :
        /\ cap_pc' = IF fail = "capture" THEN "idle" ELSE "loop"
        /\ enc_pc' = IF fail \in {"capture", "encoder"} THEN "idle" ELSE "loop"
        /\ net_pc' = IF fail \in {"none", "input"} THEN "loop" ELSE "idle"
        /\ aux_pc' = [w \in AuxWorkers |-> IF fail = "none" THEN "loop" ELSE "idle"]
        /\ srv_state' = IF fail = "none" THEN "running" ELSE "failed"
        /\ IF fail \in {"none", "input"}
           THEN socket' = TRUE /\ config' = Some(m)
           ELSE UNCHANGED <<socket, config>>
    /\ UNCHANGED <<shutdown_rx, q1, q2, metrics, cap_frame, enc_item,
                   cap_frame_number, cap_budget, inbox, flushed, enc_frame_number, consecutive_errors,
                   enc_log, net_sequence, net_log>>
    /\ UNCHANGED <<t_state, peer_addr, sequence, stats, socket_log, calls, budget,
                   source, seq0>>
    /\ UNCHANGED <<config_vars, codec_vars, chunk_vars, recv_vars, engine_vars>>

\* capture task, tick: capture_frame returned Ok(frame); the frame is counted
\* and the task goes on to send it
CaptureFrame ==
    /\ cap_pc = "loop"
    /\ cap_frame_number < cap_budget.frames
    /\ consecutive_errors' = 0
    /\ cap_frame_number' = cap_frame_number + 1
    /\ metrics' = [metrics EXCEPT !.frames_captured = @ + 1]
    /\ cap_frame' = Some([id |-> cap_frame_number + 1])
    /\ cap_pc' = "sending"
    /\ UNCHANGED <<enc_pc, net_pc, shutdown_rx, srv_state, q1, q2, enc_item,
                   cap_budget, aux_pc, inbox, flushed, enc_frame_number, enc_log, net_sequence, net_log>>
    /\ UNCHANGED <<config_vars, codec_vars, chunk_vars, send_vars, recv_vars, engine_vars>>

\* a test that stops the capture task on the 100th error already
TooManyErrors_AtLimit(n) == n >= MAX_CONSECUTIVE_ERRORS

\* if consecutive_errors > 100
TooManyErrors(n) == n > MAX_CONSECUTIVE_ERRORS

\* the errors capture_frame may return, as the capture task tells them apart
CaptureErrors == {"NoFrame", "CaptureFailed"}

\* capture task, tick: capture_frame returned an error; NoFrame changes
\* nothing, any other error is counted and may end the task
CaptureError ==
    /\ cap_pc = "loop"
    /\ consecutive_errors < cap_budget.errors
    /\ \E e \in CaptureErrors :
        IF e = "NoFrame"
        THEN UNCHANGED <<consecutive_errors, cap_pc>>
        ELSE /\ consecutive_errors' = consecutive_errors + 1
             /\ cap_pc' = IF TooManyErrors(consecutive_errors + 1)
                          THEN "exited" ELSE "loop"
    /\ UNCHANGED <<enc_pc, net_pc, shutdown_rx, srv_state, q1, q2, metrics,
                   cap_frame, enc_item, cap_frame_number, cap_budget, aux_pc, inbox, flushed, enc_frame_number,
                   enc_log, net_sequence, net_log>>
    /\ UNCHANGED <<config_vars, codec_vars, chunk_vars, send_vars, recv_vars, engine_vars>>

\* capture task: frame_tx.send(frame).await completes; it fails, and the
\* task breaks, once the encoder task has dropped the receiver
CaptureSend ==
    /\ cap_pc = "sending"
    /\ IF enc_pc = "exited"
       THEN /\ cap_pc' = "exited"
            /\ UNCHANGED q1
       ELSE /\ Len(q1) < FRAME_CHANNEL_SIZE
            /\ q1' = Append(q1, cap_frame.val)
            /\ cap_pc' = "loop"
    /\ cap_frame' = None
    /\ UNCHANGED <<enc_pc, net_pc, shutdown_rx, srv_state, q2, metrics, enc_item,
                   cap_frame_number, cap_budget, aux_pc, inbox, flushed, enc_frame_number, consecutive_errors,
                   enc_log, net_sequence, net_log>>
    /\ UNCHANGED <<config_vars, codec_vars, chunk_vars, send_vars, recv_vars, engine_vars>>

\* capture task: the shutdown branch of select!
CaptureShutdown ==
    /\ cap_pc = "loop"
    /\ shutdown_rx["capture"]
    /\ cap_pc' = "exited"
    /\ shutdown_rx' = [shutdown_rx EXCEPT !["capture"] = FALSE]
    /\ UNCHANGED <<enc_pc, net_pc, srv_state, q1, q2, metrics, cap_frame, enc_item,
                   cap_frame_number, cap_budget, aux_pc, inbox, flushed, enc_frame_number, consecutive_errors,
                   enc_log, net_sequence, net_log>>
    /\ UNCHANGED <<config_vars, codec_vars, chunk_vars, send_vars, recv_vars, engine_vars>>

\* encoder task: Some(captured_frame) = frame_rx.recv()
EncoderRecv ==
    /\ enc_pc = "loop"
    /\ q1 # <<>>
    /\ q1' = Tail(q1)
    /\ enc_frame_number' = enc_frame_number + 1
    /\ enc_item' = Some(Head(q1))
    /\ enc_pc' = "encoding"
    /\ enc_log' = Append(enc_log,
           [frame |-> Head(q1).id, outcome |-> "pending", pushed |-> FALSE,
            dropped_before |-> metrics.frames_dropped,
            dropped_after |-> metrics.frames_dropped, done |-> FALSE])
    /\ UNCHANGED <<cap_pc, net_pc, shutdown_rx, srv_state, q2, metrics, cap_frame,
                   cap_frame_number, cap_budget, aux_pc, inbox, flushed, consecutive_errors, net_sequence, net_log>>
    /\ UNCHANGED <<config_vars, codec_vars, chunk_vars, send_vars, recv_vars, engine_vars>>

\* encoder task: match encoder.encode(&raw_frame), for an encoder whose
\* answers are among outcomes
EncoderEncodeWith(outcomes) ==
    /\ enc_pc = "encoding"
    /\ \E r \in outcomes :
        IF r.kind = "Some"
        THEN /\ metrics' = [metrics EXCEPT !.frames_encoded = @ + 1,
                                           !.bytes_encoded = @ + Len(r.data)]
             /\ enc_item' = Some([data |-> r.data, is_keyframe |-> r.is_keyframe,
                                  frame_number |-> enc_frame_number])
             /\ enc_pc' = "sending"
             /\ enc_log' = [enc_log EXCEPT ![Len(enc_log)].outcome = r.kind]
        ELSE /\ UNCHANGED metrics
             /\ enc_item' = None
             /\ enc_pc' = "loop"
             /\ enc_log' = [enc_log EXCEPT
                               ![Len(enc_log)].outcome = r.kind,
                               ![Len(enc_log)].dropped_after = metrics.frames_dropped,
                               ![Len(enc_log)].done = TRUE]
    /\ UNCHANGED <<cap_pc, net_pc, shutdown_rx, srv_state, q1, q2, cap_frame,
                   cap_frame_number, cap_budget, aux_pc, inbox, flushed, enc_frame_number, consecutive_errors,
                   net_sequence, net_log>>
    /\ UNCHANGED <<config_vars, codec_vars, chunk_vars, send_vars, recv_vars, engine_vars>>

\* encoder task: match encoder.encode(&raw_frame)
EncoderEncode == EncoderEncodeWith(EncodeOutcomes)

\* encoder task: packet_tx.send(meta).await completes; it fails, and the
\* task breaks and flushes the encoder, once the network task has dropped the
\* receiver
EncoderSend ==
    /\ enc_pc = "sending"
    /\ IF net_pc = "exited"
       THEN /\ enc_pc' = "exited"
            /\ \E packets \in FlushOutcomes : flushed' = Some(packets)
            /\ q1' = <<>>
            /\ UNCHANGED q2
            /\ enc_log' = [enc_log EXCEPT
                              ![Len(enc_log)].dropped_after = metrics.frames_dropped,
                              ![Len(enc_log)].done = TRUE]
       ELSE /\ Len(q2) < PACKET_CHANNEL_SIZE
            /\ q2' = Append(q2, enc_item.val)
            /\ enc_pc' = "loop"
            /\ UNCHANGED <<q1, flushed>>
            /\ enc_log' = [enc_log EXCEPT
                              ![Len(enc_log)].pushed = TRUE,
                              ![Len(enc_log)].dropped_after = metrics.frames_dropped,
                              ![Len(enc_log)].done = TRUE]
    /\ enc_item' = None
    /\ UNCHANGED <<cap_pc, net_pc, shutdown_rx, srv_state, metrics, cap_frame,
                   cap_frame_number, cap_budget, aux_pc, inbox, enc_frame_number, consecutive_errors,
                   net_sequence, net_log>>
    /\ UNCHANGED <<config_vars, codec_vars, chunk_vars, send_vars, recv_vars, engine_vars>>

\* encoder task: the shutdown branch of select!, then encoder.flush(), whose
\* packets are only counted in a log line; the receiver of q1 is dropped
EncoderShutdown ==
    /\ enc_pc = "loop"
    /\ shutdown_rx["encoder"]
    /\ enc_pc' = "exited"
    /\ \E packets \in FlushOutcomes : flushed' = Some(packets)
    /\ shutdown_rx' = [shutdown_rx EXCEPT !["encoder"] = FALSE]
    /\ q1' = <<>>
    /\ UNCHANGED <<cap_pc, net_pc, srv_state, q2, metrics, cap_frame, enc_item,
                   cap_frame_number, cap_budget, aux_pc, inbox, enc_frame_number, consecutive_errors,
                   enc_log, net_sequence, net_log>>
    /\ UNCHANGED <<config_vars, codec_vars, chunk_vars, send_vars, recv_vars, engine_vars>>

\* the Packet the network task builds for a coded packet
NetworkPacket(encoded_packet, seq, ts) ==
    LET packet == NewPacket("Video", seq, ts, BytesOf(encoded_packet.data))
    IN  IF encoded_packet.is_keyframe
        THEN with_flags(packet, FLAG_KEYFRAME)
        ELSE packet

\* network task: Some(encoded_packet) = packet_rx.recv(); the packet is
\* built and serialized, and the bytes are handed to transport.send
NetworkStep ==
    /\ net_pc = "loop"
    /\ t_state = "ready"
    /\ q2 # <<>>
    /\ q2' = Tail(q2)
    /\ net_sequence' = wrapping_add1(net_sequence)
    /\ \E ts \in SendTimes :
        LET packet == NetworkPacket(Head(q2), net_sequence, ts)
            wire_data == to_bytes(packet)
        IN  /\ TransportSend(wire_data.head, ts)
            /\ net_log' = Append(net_log,
                   [is_keyframe |-> Head(q2).is_keyframe, wire_data |-> wire_data.head])
            /\ metrics' =
                 IF calls'[Len(calls')].result = "Ok"
                 THEN [metrics EXCEPT !.packets_sent = @ + 1,
                                      !.bytes_sent = @ + Len(Head(q2).data)]
                 ELSE metrics
    /\ net_pc' = IF t_state' = "ready" THEN "loop"
                 ELSE IF t_state' = "panicked" THEN "exited" ELSE "hung"
    /\ UNCHANGED <<cap_pc, enc_pc, shutdown_rx, srv_state, q1, cap_frame, enc_item,
                   cap_frame_number, cap_budget, aux_pc, inbox, flushed, enc_frame_number, consecutive_errors, enc_log>>
    /\ UNCHANGED <<socket, peer_addr, config, budget, source, seq0>>
    /\ UNCHANGED <<config_vars, codec_vars, chunk_vars, recv_vars, engine_vars>>

\* network task: the shutdown branch of select!, then transport.disconnect();
\* the receiver of q2 is dropped
NetworkShutdown ==
    /\ net_pc = "loop"
    /\ shutdown_rx["network"]
    /\ net_pc' = "exited"
    /\ shutdown_rx' = [shutdown_rx EXCEPT !["network"] = FALSE]
    /\ q2' = <<>>
    /\ socket' = FALSE
    /\ peer_addr' = FALSE
    /\ UNCHANGED <<cap_pc, enc_pc, srv_state, q1, metrics, cap_frame, enc_item,
                   cap_frame_number, cap_budget, aux_pc, inbox, flushed, enc_frame_number, consecutive_errors,
                   enc_log, net_sequence, net_log>>
    /\ UNCHANGED <<t_state, config, sequence, stats, socket_log, calls, budget,
                   source, seq0>>
    /\ UNCHANGED <<config_vars, codec_vars, chunk_vars, recv_vars, engine_vars>>

\* the pc of a server task
TaskPc(w) ==
    IF w \in AuxWorkers THEN aux_pc[w]
    ELSE IF w = "capture" THEN cap_pc ELSE IF w = "encoder" THEN enc_pc ELSE net_pc

\* StreamingServer::stop: the shutdown message is published to every task
\* that still holds a receiver; stop then sleeps
ServerStop ==
    /\ srv_state = "running"
    /\ srv_state' = "stopping"
    /\ shutdown_rx' = [w \in ServerWorkers \cup AuxWorkers |->
                          shutdown_rx[w] \/ TaskPc(w) \notin {"idle", "exited"}]
    /\ UNCHANGED <<cap_pc, enc_pc, net_pc, q1, q2, metrics, cap_frame, enc_item,
                   cap_frame_number, cap_budget, aux_pc, inbox, flushed, enc_frame_number, consecutive_errors,
                   enc_log, net_sequence, net_log>>
    /\ UNCHANGED <<config_vars, codec_vars, chunk_vars, send_vars, recv_vars, engine_vars>>

\* StreamingServer::stop: the sleep of 500 ms is over and stop returns
ServerStopped ==
    /\ srv_state = "stopping"
    /\ srv_state' = "stopped"
    /\ UNCHANGED <<cap_pc, enc_pc, net_pc, shutdown_rx, q1, q2, metrics, cap_frame,
                   enc_item, cap_frame_number, cap_budget, aux_pc, inbox, flushed, enc_frame_number,
                   consecutive_errors, enc_log, net_sequence, net_log>>
    /\ UNCHANGED <<config_vars, codec_vars, chunk_vars, send_vars, recv_vars, engine_vars>>

NextServer ==
    \/ ServerStart
    \/ CaptureFrame
    \/ CaptureError
    \/ CaptureSend
    \/ CaptureShutdown
    \/ EncoderRecv
    \/ EncoderEncode
    \/ EncoderSend
    \/ EncoderShutdown
    \/ NetworkStep
    \/ NetworkShutdown
    \/ ServerStop
    \/ ServerStopped

SpecServer == InitServer /\ [][NextServer]_vars

(***************************************************************************)
(* Claims about frame accounting (checked under SpecServer)                *)
(***************************************************************************)
\* C19 as stated: for every frame the encoder worker removed from Q1 and has
\* finished with, exactly one of two things happened: a coded packet was
\* pushed to Q2, or frames_dropped was incremented.
C19_PerFrame ==
    \A i \in 1 .. Len(enc_log) :
        enc_log[i].done =>
            (enc_log[i].pushed
                <=> ~(enc_log[i].dropped_after > enc_log[i].dropped_before))

\* the frames sitting in Q1 or held by the capture or encoder worker and not
\* yet encoded or dropped
frames_in_flight ==
    Len(q1) + (IF cap_frame.some THEN 1 ELSE 0)
            + (IF enc_pc = "encoding" THEN 1 ELSE 0)

\* C20 as stated: in every reachable state,
\* frames_captured = frames_encoded + frames_dropped + frames_in_flight.
C20_Accounting ==
    metrics.frames_captured =
        metrics.frames_encoded + metrics.frames_dropped + frames_in_flight

(***************************************************************************)
(* SpecNet: the server's tasks over a transport whose peer address has     *)
(* been set with UdpTransport::connect.  The server as wired (SpecServer)  *)
(* never makes that call, nor calls recv: there every transport.send       *)
(* returns the error "No peer address set" and no datagram is emitted.     *)
(***************************************************************************)
NextNet ==
    \/ ServerStart
    \/ Connect
    \/ CaptureFrame
    \/ CaptureError
    \/ CaptureSend
    \/ CaptureShutdown
    \/ EncoderRecv
    \/ EncoderEncode
    \/ EncoderSend
    \/ EncoderShutdown
    \/ NetworkStep
    \/ NetworkShutdown
    \/ ServerStop
    \/ ServerStopped

SpecNet == InitServer /\ [][NextNet]_vars

\* bit 0 (KEYFRAME) of the flags byte at offset 13 of a datagram
WireKeyframe(e) == WireFlags(e) % 2 = 1

EncoderLeavesOnShutdown ==
    /\ enc_pc = "loop" /\ enc_pc' = "exited"
    /\ net_pc \notin {"idle", "exited"}

C38_AllOrNothing ==
    srv_state = "failed" =>
        \A w \in ServerWorkers \cup AuxWorkers : TaskPc(w) \in {"idle", "exited"}

(***************************************************************************)
(* SpecBacklog: the server with a slow encoder.  The encoder task takes    *)
(* frames from q1 but its encode call has not returned, while the capture  *)
(* device yields enough frames to fill q1.                                 *)
(***************************************************************************)
InitBacklog == NewServer(FRAME_CHANNEL_SIZE + MaxCaptured, MaxCaptureErrors)

NextBacklog ==
    \/ ServerStart
    \/ CaptureFrame
    \/ CaptureError
    \/ CaptureSend
    \/ CaptureShutdown
    \/ EncoderRecv
    \/ ServerStop
    \/ ServerStopped

SpecBacklog == InitBacklog /\ [][NextBacklog]_vars

\* the capture task has called frame_tx.send(frame) and q1 has no free slot:
\* the call stays pending until the encoder task takes a frame
WaitingForSlot ==
    /\ cap_pc = "sending"
    /\ cap_frame # None
    /\ Len(q1) = FRAME_CHANNEL_SIZE
    /\ enc_pc # "exited"

\* C21: a frame the capture worker obtains while Q1 is full is dropped and
\* counted in frames_dropped, and the worker goes on to the next tick: the
\* worker is never waiting for a slot of Q1 with a frame in its hands.
C21_DropPolicy == ~WaitingForSlot

(***************************************************************************)
(* SpecClient: the server as wired, and a remote client that sends         *)
(* datagrams to the port the transport is bound to.                        *)
(***************************************************************************)
MaxInbox == 1

\* a datagram of a remote client arrives at the bound socket, where it waits
\* for a recv_from
ClientDatagram ==
    /\ socket
    /\ inbox < MaxInbox
    /\ inbox' = inbox + 1
    /\ UNCHANGED <<cap_pc, enc_pc, net_pc, shutdown_rx, srv_state, q1, q2, metrics,
                   cap_frame, enc_item, cap_frame_number, cap_budget, aux_pc, flushed,
                   enc_frame_number, consecutive_errors, enc_log, net_sequence,
                   net_log>>
    /\ UNCHANGED <<config_vars, codec_vars, chunk_vars, send_vars, recv_vars, engine_vars>>

NextClient == NextServer \/ ClientDatagram

SpecClient == InitServer /\ [][NextClient]_vars

\* C22: once a remote client has sent a datagram to the bound port, every
\* coded packet the network worker takes from Q2 is sent to that client:
\* the send succeeds and puts at least one datagram on the socket.
C22_Delivery ==
    [][(inbox > 0 /\ net_log' # net_log)
         => /\ calls'[Len(calls')].result = "Ok"
            /\ Len(socket_log') > Len(socket_log)]_vars

(***************************************************************************)
(* SpecFailure: the server with a capture device that may fail more than   *)
(* MAX_CONSECUTIVE_ERRORS times in a row.  The runtime runs every task     *)
(* that can make a step; what the capture device yields, and the calls of  *)
(* start and stop by the owner of the server, are not forced.              *)
(***************************************************************************)
MaxFailureFrames == 1

InitFailure ==
    NewServer(MaxFailureFrames, MAX_CONSECUTIVE_ERRORS + MaxCaptureErrors)

TaskFairness ==
    /\ WF_vars(CaptureSend) /\ WF_vars(CaptureShutdown)
    /\ WF_vars(EncoderRecv) /\ WF_vars(EncoderEncode) /\ WF_vars(EncoderSend)
    /\ WF_vars(EncoderShutdown)
    /\ WF_vars(NetworkStep) /\ WF_vars(NetworkShutdown)
    /\ WF_vars(ServerStopped)

SpecFailure == InitFailure /\ [][NextServer]_vars /\ TaskFairness

\* the capture task left its loop on too many consecutive capture errors
CaptureFailed == cap_pc = "exited" /\ consecutive_errors > MAX_CONSECUTIVE_ERRORS

\* encoder.encode returned an error for some frame
EncoderFailed == \E i \in 1..Len(enc_log) : enc_log[i].outcome = "Err"

\* every task of the server has left its loop
AllTasksLeft == \A w \in ServerWorkers : TaskPc(w) \in {"exited", "hung"}

\* C23: when the capture worker leaves its loop because of capture errors,
\* or the encoder reports an encoding error, the shutdown signal is
\* published and every worker eventually leaves its loop.
C23_Teardown == (CaptureFailed \/ EncoderFailed) ~> AllTasksLeft

\* C32: the consecutive-error counter of the capture worker is incremented
\* by one by a capture error other than NoFrame, reset to 0 by every captured
\* frame and left alone otherwise, and the worker leaves its loop on errors
\* exactly when the counter first exceeds 100, on the 101st counted error
\* since the last frame.
C32_ErrorCounter ==
    [][/\ cap_frame_number' # cap_frame_number => consecutive_errors' = 0
       /\ consecutive_errors' # consecutive_errors
              => consecutive_errors' \in {0, consecutive_errors + 1}
       /\ consecutive_errors' = consecutive_errors + 1
              => /\ cap_pc = "loop"
                 /\ cap_pc' = "exited" <=> consecutive_errors' = 101
                 /\ cap_pc' # "exited" => cap_pc' = "loop"
       /\ (cap_pc = "loop" /\ cap_pc' = "exited" /\ ~shutdown_rx["capture"])
              => consecutive_errors' = 101 /\ consecutive_errors = 100
       /\ consecutive_errors' <= 101]_vars

\* the capture worker has left its loop on its 101st consecutive error,
\* counted from the last captured frame
C32_Witness ==
    /\ CaptureFailed
    /\ consecutive_errors = 101
    /\ cap_frame_number > 0
    /\ ~shutdown_rx["capture"] /\ srv_state = "running"

(***************************************************************************)
(* SpecShutdown: the five tasks of StreamingServer::start, the input and   *)
(* the metrics task included, up to and after StreamingServer::stop.  The  *)
(* capture device yields a frame at every tick, enough of them to fill the *)
(* frame channel while the encoder task is slow, and the encoder returns a *)
(* packet for every frame.                                                 *)
(* select! chooses among its ready branches at random and the runtime      *)
(* polls every task that can go on: weak fairness of the steps of the      *)
(* tasks (every run of the model ends, so it ends with no task able to     *)
(* take a step).                                                           *)
(***************************************************************************)
\* an encoder that returns a packet for every frame
SteadyOutcomes ==
    {[kind |-> "Some", data |-> d, is_keyframe |-> FALSE] : d \in EncodedPayloads}

\* encoder task, with the encoder of SteadyOutcomes
EncoderEncodeSteady == EncoderEncodeWith(SteadyOutcomes)

\* input task: let _ = shutdown_rx.recv().await, then input_handler.shutdown()
InputShutdown ==
    /\ aux_pc["input"] = "loop"
    /\ shutdown_rx["input"]
    /\ aux_pc' = [aux_pc EXCEPT !["input"] = "exited"]
    /\ shutdown_rx' = [shutdown_rx EXCEPT !["input"] = FALSE]
    /\ UNCHANGED <<cap_pc, enc_pc, net_pc, srv_state, q1, q2, metrics, cap_frame,
                   enc_item, cap_frame_number, cap_budget, inbox, flushed,
                   enc_frame_number, consecutive_errors, enc_log, net_sequence,
                   net_log>>
    /\ UNCHANGED <<config_vars, codec_vars, chunk_vars, send_vars, recv_vars, engine_vars>>

\* metrics task, tick: the counters are read and logged; only the task's
\* own copies of the last readings change, which nothing else reads
MetricsTick ==
    /\ aux_pc["metrics"] = "loop"
    /\ UNCHANGED vars

\* a metrics task that does not listen for the shutdown message
MetricsShutdown_Deaf ==
    /\ aux_pc["metrics"] = "loop"
    /\ shutdown_rx["metrics"]
    /\ shutdown_rx' = [shutdown_rx EXCEPT !["metrics"] = FALSE]
    /\ UNCHANGED <<aux_pc, cap_pc, enc_pc, net_pc, srv_state, q1, q2, metrics, cap_frame,
                   enc_item, cap_frame_number, cap_budget, inbox, flushed,
                   enc_frame_number, consecutive_errors, enc_log, net_sequence,
                   net_log>>
    /\ UNCHANGED <<config_vars, codec_vars, chunk_vars, send_vars, recv_vars, engine_vars>>

\* metrics task: the shutdown branch of select!
MetricsShutdown ==
    /\ aux_pc["metrics"] = "loop"
    /\ shutdown_rx["metrics"]
    /\ aux_pc' = [aux_pc EXCEPT !["metrics"] = "exited"]
    /\ shutdown_rx' = [shutdown_rx EXCEPT !["metrics"] = FALSE]
    /\ UNCHANGED <<cap_pc, enc_pc, net_pc, srv_state, q1, q2, metrics, cap_frame,
                   enc_item, cap_frame_number, cap_budget, inbox, flushed,
                   enc_frame_number, consecutive_errors, enc_log, net_sequence,
                   net_log>>
    /\ UNCHANGED <<config_vars, codec_vars, chunk_vars, send_vars, recv_vars, engine_vars>>

\* the frames that fill the frame channel and leave the capture task
\* waiting with one more
BacklogFrames == FRAME_CHANNEL_SIZE + 1

InitShutdown == NewServer(BacklogFrames, 0)

NextShutdown ==
    \/ ServerStart
    \/ CaptureFrame
    \/ CaptureSend
    \/ CaptureShutdown
    \/ EncoderRecv
    \/ EncoderEncodeSteady
    \/ EncoderSend
    \/ EncoderShutdown
    \/ NetworkStep
    \/ NetworkShutdown
    \/ InputShutdown
    \/ MetricsTick
    \/ MetricsShutdown
    \/ ServerStop
    \/ ServerStopped

\* a step of a task that needs neither a tick of a timer nor an item of a
\* channel
WorkerStep ==
    \/ CaptureSend
    \/ CaptureShutdown
    \/ EncoderEncodeSteady
    \/ EncoderSend
    \/ EncoderShutdown
    \/ NetworkShutdown
    \/ InputShutdown
    \/ MetricsShutdown

\* the runtime does not rest while a task can finish what it began or take
\* the shutdown message
WorkerFairness == WF_vars(WorkerStep)

SpecShutdown == InitShutdown /\ [][NextShutdown]_vars /\ WorkerFairness

\* stop has published the shutdown message
ShutdownPublished == srv_state \in {"stopping", "stopped"}

\* every task that start spawned has left its loop
AllWorkersLeft == \A w \in ServerWorkers \cup AuxWorkers : TaskPc(w) = "exited"

\* C33: once stop has published the shutdown message, each of the five
\* tasks (capture, encoder, network, input, metrics) eventually leaves its
\* loop, whatever the frame and the packet channel hold
C33_ShutdownLiveness == ShutdownPublished ~> AllWorkersLeft

\* C33: every task has left after a stop that found the capture task waiting
\* to push its frame into the full frame channel: the encoder task never
\* took a frame, and the capture task left without taking the shutdown
\* message
C33_Witness ==
    /\ ShutdownPublished
    /\ AllWorkersLeft
    /\ cap_frame_number = BacklogFrames
    /\ enc_frame_number = 0
    /\ shutdown_rx["capture"]

\* C34: once stop has published the shutdown message, no task begins another
\* iteration: the encoder task takes no further frame from the frame
\* channel and the network task no further packet from the packet channel
C34_ShutdownMonotonic ==
    [][ShutdownPublished =>
          /\ enc_frame_number' = enc_frame_number
          /\ net_sequence' = net_sequence]_vars

(***************************************************************************)
(* SpecReceive: an initialised UdpTransport whose owner calls recv, with   *)
(* datagrams that are serialized packets and datagrams that are not        *)
(***************************************************************************)
MaxReceived == 2

\* the packets whose serialization arrives
ReceivedPackets ==
    {with_flags(NewPacket("Video", seq, ts, BytesOf(<<170>>)), flags) :
        seq \in {U32(0), U32(1)}, ts \in SendTimes,
        flags \in {FLAG_FRAGMENT, FLAG_FRAGMENT + FLAG_LAST_FRAGMENT}}

\* what recv_from may put in the buffer: a serialized packet, one cut short
\* in its header or in its payload, or one with a type byte of no packet
\* type (each is far shorter than the buffer of max_packet_size + 128 bytes)
Datagrams ==
    LET wires == {to_bytes(p).head : p \in ReceivedPackets}
        spoilt == {w \in wires : WireSeq([wire |-> BytesOf(w)]) = U32(0)
                                  /\ ~WireLast([wire |-> BytesOf(w)])}
    IN  {BytesOf(w) : w \in wires}
            \cup {BytesOf(SubSeq(w, 1, HEADER_SIZE - 1)) : w \in spoilt}
            \cup {BytesOf(SubSeq(w, 1, Len(w) - 1)) : w \in spoilt}
            \cup {BytesOf([w EXCEPT ![1] = 0]) : w \in spoilt}

\* UdpTransport::recv, for the datagram recv_from yields (io_ok) and a
\* socket.connect to its sender that succeeds or not (connect_ok): the peer
\* address is pinned first, the datagram is parsed next, and only a parsed
\* packet is counted and handed to add_fragment
recv(self, datagram, io_ok, connect_ok) ==
    IF ~self.socket
    THEN [self |-> self, result |-> Err("Socket not initialized")]
    ELSE IF ~io_ok
    THEN [self |-> self, result |-> Err("recv_from failed")]
    ELSE LET pinned == [self EXCEPT !.peer_addr = @ \/ connect_ok]
             parsed == from_bytes(datagram)
         IN  IF ~parsed.ok
             THEN [self |-> pinned, result |-> Err(parsed.err)]
             ELSE LET r == add_fragment(self.fragment_buffer, parsed.packet)
                      counted ==
                          [pinned EXCEPT
                              !.stats.packets_received = @ + 1,
                              !.stats.bytes_received = @ + Len(datagram.head),
                              !.fragment_buffer = r.buf]
                  IN  [self |-> counted,
                       result |-> IF r.out.some THEN Ok(r.out.val)
                                  ELSE Err("Fragment not complete")]

\* the fields of the transport that recv reads and writes
Receiver ==
    [socket |-> socket, peer_addr |-> peer_addr, stats |-> rx_stats,
     fragment_buffer |-> rx_buf]

InitReceive ==
    /\ t_state = "ready"
    /\ socket = TRUE /\ peer_addr = FALSE
    /\ config \in {Some(m) : m \in NetPacketSizes}
    /\ sequence = U32(0) /\ seq0 = sequence
    /\ stats = NoStats
    /\ socket_log = <<>> /\ calls = <<>>
    /\ budget = 0 /\ source = {}
    /\ rx_buf \in {NewFragmentBuffer, PendingChain(U32(1))}
    /\ rx_start = rx_buf
    /\ rx_pos = 0 /\ rx_log = <<>>
    /\ rx_stats = NoRxStats
    /\ ConfigIdle /\ CodecIdle /\ ChunkIdle /\ EngineIdle /\ PipeIdle

\* a task calls UdpTransport::recv
Recv ==
    /\ t_state = "ready"
    /\ rx_pos < MaxReceived
    /\ \E io_ok \in BOOLEAN, connect_ok \in BOOLEAN :
       \E datagram \in (IF io_ok THEN Datagrams ELSE {BytesOf(<<>>)}) :
        LET r == recv(Receiver, datagram, io_ok, connect_ok)
        IN  /\ peer_addr' = r.self.peer_addr
            /\ rx_stats' = r.self.stats
            /\ rx_buf' = r.self.fragment_buffer
            /\ rx_log' = Append(rx_log,
                   [datagram |-> datagram, received |-> socket /\ io_ok,
                    result |-> r.result, before |-> Receiver, after |-> r.self])
    /\ rx_pos' = rx_pos + 1
    /\ UNCHANGED <<t_state, socket, config, sequence, stats, socket_log, calls,
                   budget, source, seq0, rx_start>>
    /\ UNCHANGED <<config_vars, codec_vars, chunk_vars, engine_vars, pipe_vars>>

NextReceive == Recv \/ Connect \/ Disconnect

SpecReceive == InitReceive /\ [][NextReceive]_vars

\* C39: a datagram that fails to parse changes nothing: recv returns an
\* error, and the pinned peer address, the receive counters and the fragment
\* chain are as they were before the call
C39_RejectedDatagram ==
    \A j \in 1 .. Len(rx_log) :
        (rx_log[j].received /\ ~from_bytes(rx_log[j].datagram).ok) =>
            /\ ~rx_log[j].result.ok
            /\ rx_log[j].after = rx_log[j].before

(***************************************************************************)
(* SpecConfig: Config::validate on a loaded configuration                  *)
(***************************************************************************)
MAX_FPS == 240
MIN_BITRATE_KBPS == 1000
MAX_BITRATE_KBPS == 100000

\* the configurations handed to validate: the fields it reads, at and around
\* the limits it tests
Configs ==
    [video : [width : {0, 1, 1920},
              height : {0, 1, 1080},
              fps : {0, 1, 60, MAX_FPS - 1, MAX_FPS, MAX_FPS + 1},
              bitrate_kbps : {0, MIN_BITRATE_KBPS - 1, MIN_BITRATE_KBPS, 5000,
                              MAX_BITRATE_KBPS, MAX_BITRATE_KBPS + 1}],
     network : [port : {0, 1, 8080, 65535}]]

ResolutionInvalid(video) == video.width = 0 \/ video.height = 0

FpsInvalid_Exclusive(video) == video.fps = 0 \/ video.fps >= MAX_FPS
FpsInvalid(video) == video.fps = 0 \/ video.fps > MAX_FPS

BitrateInvalid(video) ==
    video.bitrate_kbps < MIN_BITRATE_KBPS \/ video.bitrate_kbps > MAX_BITRATE_KBPS

PortInvalid(network) == network.port = 0

\* Config::validate: the first test that fails decides the error
validate(self) ==
    IF ResolutionInvalid(self.video) THEN Err("Invalid video resolution")
    ELSE IF FpsInvalid(self.video) THEN Err("Invalid FPS (must be 1-240)")
    ELSE IF BitrateInvalid(self.video)
         THEN Err("Invalid bitrate (must be 1000-100000 kbps)")
    ELSE IF PortInvalid(self.network) THEN Err("Invalid port")
    ELSE Ok(<<>>)

\* main: the configuration is loaded from the file or the defaults, with the
\* port of the command line
InitConfig ==
    /\ cfg_pc = "loaded"
    /\ cfg \in Configs
    /\ cfg_res = <<>>
    /\ CodecIdle /\ ChunkIdle /\ SendIdle /\ RecvIdle /\ EngineIdle /\ PipeIdle

\* main: config.validate()?
Validate ==
    /\ cfg_pc = "loaded"
    /\ cfg_res' = validate(cfg)
    /\ cfg_pc' = "validated"
    /\ UNCHANGED <<cfg, codec_vars, chunk_vars, send_vars, recv_vars, engine_vars,
                   pipe_vars>>

NextConfig == Validate

SpecConfig == InitConfig /\ [][NextConfig]_vars

\* the rules of the specification for a configuration
ValidConfig(c) ==
    /\ c.video.width > 0 /\ c.video.height > 0
    /\ 1 <= c.video.fps /\ c.video.fps <= 240
    /\ 1000 <= c.video.bitrate_kbps /\ c.video.bitrate_kbps <= 100000
    /\ c.network.port > 0

\* C25: validate accepts a configuration exactly when width > 0 and
\* height > 0, 1 <= fps <= 240, 1000 <= bitrate_kbps <= 100000 and port > 0.
C25_Validate == cfg_pc = "validated" => (cfg_res.ok <=> ValidConfig(cfg))

\* a configuration at the upper limits of fps and bitrate has been accepted
C25_Witness ==
    /\ cfg_pc = "validated"
    /\ cfg_res.ok
    /\ cfg.video.fps = 240 /\ cfg.video.bitrate_kbps = 100000
    /\ cfg.video.width = 1 /\ cfg.network.port = 1

\* Config::default() with network.max_packet_size = m
ConfigWithPacketSize(m) ==
    [video |-> [width |-> 1920, height |-> 1080, fps |-> 60, bitrate_kbps |-> 10000],
     network |-> [port |-> 8080, max_packet_size |-> m]]

\* C37: for every max_packet_size that validate accepts and every non-empty
\* payload, UdpTransport::send returns (Ok or Err) after finitely many
\* datagrams; it neither panics nor loops for ever
C37_SendTerminates ==
    \A j \in 1 .. Len(calls) :
        (/\ validate(ConfigWithPacketSize(calls[j].max_packet_size)).ok
         /\ calls[j].data # <<>>)
            => calls[j].result \in {"Ok", "Err"}
====
